---- MODULE Spec2Model ----
(***************************************************************************)
(* A model of the OSCAL control server: the control identifier utilities   *)
(* (utils/controlUtils.js), the baseline lookup of the OSCAL service       *)
(* (services/oscalService.js) and the SSP service (services/sspService.js).*)
(*                                                                         *)
(* Text is modelled as a sequence of one-character strings, so that the    *)
(* regular expressions, toUpperCase and the template literals of the       *)
(* source are computed character by character.                             *)
(***************************************************************************)
EXTENDS Integers, Sequences, FiniteSets, TLC

(***************************************************************************)
(* Characters and JavaScript string primitives                             *)
(***************************************************************************)
LowerCase == <<"a","b","c","d","e","f","g","h","i","j","k","l","m",
               "n","o","p","q","r","s","t","u","v","w","x","y","z">>

UpperCase == <<"A","B","C","D","E","F","G","H","I","J","K","L","M",
               "N","O","P","Q","R","S","T","U","V","W","X","Y","Z">>

Digits == <<"0","1","2","3","4","5","6","7","8","9">>

Range(s) == {s[i] : i \in DOMAIN s}

IsUpper(c) == c \in Range(UpperCase)

IsLower(c) == c \in Range(LowerCase)

IsDigit(c) == c \in Range(Digits)

\* the characters of the model's alphabet that the class \s matches
IsSpace(c) == c \in {" ", "\t"}

UpperOfChar(c) ==
  IF IsLower(c) THEN UpperCase[CHOOSE i \in DOMAIN LowerCase : LowerCase[i] = c]
  ELSE c

LowerOfChar(c) ==
  IF IsUpper(c) THEN LowerCase[CHOOSE i \in DOMAIN UpperCase : UpperCase[i] = c]
  ELSE c

\* a letter whose upper case is two letters: U+00DF, upper case "SS"
SharpS == "ß"

\* the upper case of one character, as text
UpperOfText(c) == IF c = SharpS THEN <<"S", "S">> ELSE <<UpperOfChar(c)>>

RECURSIVE UpperEach(_)
UpperEach(s) ==
  IF s = <<>> THEN <<>> ELSE UpperOfText(Head(s)) \o UpperEach(Tail(s))

\* String.prototype.toUpperCase / toLowerCase on the model's alphabet
toUpperCase(s) ==
  IF SharpS \in Range(s) THEN UpperEach(s)
  ELSE [i \in DOMAIN s |-> UpperOfChar(s[i])]

toLowerCase(s) == [i \in DOMAIN s |-> LowerOfChar(s[i])]

\* String.prototype.includes
includes(s, sub) ==
  \E i \in 0..(Len(s) - Len(sub)) : SubSeq(s, i + 1, i + Len(sub)) = sub

\* String.prototype.endsWith
endsWith(s, suffix) ==
  /\ Len(s) >= Len(suffix)
  /\ SubSeq(s, Len(s) - Len(suffix) + 1, Len(s)) = suffix

\* the length of the longest run of characters of one class starting at s[i]
RECURSIVE DigitRun(_, _)
DigitRun(s, i) ==
  IF i <= Len(s) /\ IsDigit(s[i]) THEN 1 + DigitRun(s, i + 1) ELSE 0

RECURSIVE SpaceRun(_, _)
SpaceRun(s, i) ==
  IF i <= Len(s) /\ IsSpace(s[i]) THEN 1 + SpaceRun(s, i + 1) ELSE 0

(***************************************************************************)
(* JavaScript numbers.  A Number that parseInt produces from a run of      *)
(* decimal digits is held as its decimal numeral without leading zeros.    *)
(* This is exact for every numeral whose value a double holds exactly,     *)
(* which is the case for all numerals the model draws (short numerals and  *)
(* powers of ten up to 10^22).                                             *)
(***************************************************************************)
NoGroup == <<"undefined">>

RECURSIVE StripLeadingZeros(_)
StripLeadingZeros(ds) ==
  IF Len(ds) > 1 /\ ds[1] = "0" THEN StripLeadingZeros(Tail(ds)) ELSE ds

RECURSIVE StripTrailingZeros(_)
StripTrailingZeros(ds) ==
  IF Len(ds) > 1 /\ ds[Len(ds)] = "0"
  THEN StripTrailingZeros(SubSeq(ds, 1, Len(ds) - 1))
  ELSE ds

\* parseInt(digits, 10) of a non-empty run of decimal digits
parseInt(ds) == StripLeadingZeros(ds)

RECURSIVE Decimal(_)
Decimal(n) ==
  IF n < 10 THEN <<Digits[n + 1]>>
  ELSE Decimal(n \div 10) \o <<Digits[(n % 10) + 1]>>

\* Number::toString, as the template literals `${number}` apply it: plain
\* decimal digits below 10^21, exponent notation from 10^21 on
NumberToString(num) ==
  IF Len(num) <= 21 THEN num
  ELSE LET sig == StripTrailingZeros(num)
           mant == IF Len(sig) = 1 THEN sig
                   ELSE <<sig[1], ".">> \o Tail(sig)
       IN  mant \o <<"e", "+">> \o Decimal(Len(num) - 1)

(***************************************************************************)
(* controlUtils.js: the five regular expressions of parse                  *)
(***************************************************************************)
NoMatch == [matched |-> FALSE]

\* ([0-9]+)(?:<open>([0-9]+)<close>)?$ applied from position i of s;
\* open = "" stands for a pattern that has no enhancement group
NumberAndEnhancement(s, i, open, close) ==
  LET k == DigitRun(s, i)
      j == i + k
      hasClose == close # ""
      m == DigitRun(s, j + 1)
      closeAt == j + m + (IF hasClose THEN 1 ELSE 0)
  IN  IF k = 0 THEN NoMatch
      ELSE IF j = Len(s) + 1
      THEN [matched |-> TRUE, g2 |-> SubSeq(s, i, j - 1), g3 |-> NoGroup]
      ELSE IF /\ open # ""
              /\ s[j] = open
              /\ m >= 1
              /\ closeAt = Len(s)
              /\ hasClose => s[closeAt] = close
      THEN [matched |-> TRUE, g2 |-> SubSeq(s, i, j - 1),
            g3 |-> SubSeq(s, j + 1, j + m)]
      ELSE NoMatch

\* the groups of a match: ([A-Z]{2}) is s[1..2], the rest as matched after the separator
WithFamily(s, rest) ==
  IF rest.matched
  THEN [matched |-> TRUE, g1 |-> SubSeq(s, 1, 2), g2 |-> rest.g2, g3 |-> rest.g3]
  ELSE NoMatch

FamilyPrefix(s) == Len(s) >= 2 /\ IsUpper(s[1]) /\ IsUpper(s[2])

\* /^([A-Z]{2})\.([0-9]+)(?:\.([0-9]+))?$/
dotNotationRegex(s) ==
  IF FamilyPrefix(s) /\ Len(s) >= 3 /\ s[3] = "."
  THEN WithFamily(s, NumberAndEnhancement(s, 4, ".", ""))
  ELSE NoMatch

\* /^([A-Z]{2})-([0-9]+)(?:\(([0-9]+)\))?$/
hyphenParensRegex(s) ==
  IF FamilyPrefix(s) /\ Len(s) >= 3 /\ s[3] = "-"
  THEN WithFamily(s, NumberAndEnhancement(s, 4, "(", ")"))
  ELSE NoMatch

\* /^([A-Z]{2})-([0-9]+)$/
hyphenRegex(s) ==
  IF FamilyPrefix(s) /\ Len(s) >= 3 /\ s[3] = "-"
  THEN WithFamily(s, NumberAndEnhancement(s, 4, "", ""))
  ELSE NoMatch

\* /^([A-Z]{2})\s+([0-9]+)$/
spaceRegex(s) ==
  IF FamilyPrefix(s) /\ SpaceRun(s, 3) >= 1
  THEN WithFamily(s, NumberAndEnhancement(s, 3 + SpaceRun(s, 3), "", ""))
  ELSE NoMatch

\* /^([A-Z]{2})([0-9]+)$/
noSepRegex(s) ==
  IF FamilyPrefix(s)
  THEN WithFamily(s, NumberAndEnhancement(s, 3, "", ""))
  ELSE NoMatch


(***************************************************************************)
(* controlUtils.js: parse and normalize.  A call that throws is modelled   *)
(* by a result with ok = FALSE carrying the message of the Error.          *)
(***************************************************************************)
Throw(msg) == [ok |-> FALSE, error |-> msg]

\* lines 81-100: the two renderings and the returned object, from the
\* texts `${number}` and `${enhancement}`
Renderings(family, number, enhancement, numberText, enhancementText) ==
  [ok |-> TRUE, family |-> family, number |-> number, enhancement |-> enhancement,
   internal |-> IF enhancement # NoGroup
                THEN family \o <<".">> \o numberText \o <<".">> \o enhancementText
                ELSE family \o <<".">> \o numberText,
   mcp |-> IF enhancement # NoGroup
           THEN family \o <<"-">> \o numberText \o <<"(">> \o enhancementText \o <<")">>
           ELSE family \o <<"-">> \o numberText,
   display |-> IF enhancement # NoGroup
               THEN family \o <<"-">> \o numberText \o <<"(">> \o enhancementText \o <<")">>
               ELSE family \o <<"-">> \o numberText]

ParsedControl(family, number, enhancement) ==
  Renderings(family, number, enhancement, NumberToString(number),
             IF enhancement # NoGroup THEN NumberToString(enhancement) ELSE <<>>)

\* lines 61-63 and 65-67: the groups of a pattern that has an enhancement group
WithEnhancement(m) ==
  ParsedControl(m.g1, parseInt(m.g2),
                IF m.g3 # NoGroup THEN parseInt(m.g3) ELSE NoGroup)

\* lines 69-70, 72-73, 75-76: the patterns that leave enhancement undefined
WithoutEnhancement(m) == ParsedControl(m.g1, parseInt(m.g2), NoGroup)

\* lines 59-79: the first pattern that matches decides, given the matches of
\* the five patterns in the order they are tried
FirstMatch(dot, hyphenParens, hyphen, space, noSep) ==
  IF dot.matched THEN WithEnhancement(dot)
  ELSE IF hyphenParens.matched THEN WithEnhancement(hyphenParens)
  ELSE IF hyphen.matched THEN WithoutEnhancement(hyphen)
  ELSE IF space.matched THEN WithoutEnhancement(space)
  ELSE IF noSep.matched THEN WithoutEnhancement(noSep)
  ELSE Throw("Invalid control ID format")

ParseUpper(upperControlId) ==
  FirstMatch(dotNotationRegex(upperControlId), hyphenParensRegex(upperControlId),
             hyphenRegex(upperControlId), spaceRegex(upperControlId),
             noSepRegex(upperControlId))

\* parse without line 47: the patterns applied to the text as spelled
parseAsSpelled(controlId) ==
  IF controlId = <<>> THEN Throw("Control ID is required")
  ELSE ParseUpper(controlId)

parse(controlId) ==
  IF controlId = <<>> THEN Throw("Control ID is required")
  ELSE ParseUpper(toUpperCase(controlId))

\* lines 27-32: the rendering the format names ("dot", or anything else for
\* the default "hyphen"); an Error thrown by parse propagates
Rendering(parsed, format) ==
  IF ~parsed.ok THEN parsed
  ELSE IF format = "dot" THEN [ok |-> TRUE, value |-> parsed.internal]
  ELSE [ok |-> TRUE, value |-> parsed.mcp]

normalize(controlId, format) ==
  IF controlId = <<>> THEN Throw("Control ID is required")
  ELSE Rendering(parse(controlId), format)

\* normalize as the services import it, with the default format
normalizeControlId(controlId) == normalize(controlId, "hyphen")


(***************************************************************************)
(* controlUtils.js: compareControlIds                                      *)
(***************************************************************************)
\* the characters the compared values are made of, in code unit order
CodeUnits == <<"-">> \o Digits \o UpperCase

Ord(c) == CHOOSE i \in DOMAIN CodeUnits : CodeUnits[i] = c

\* the operator < on two strings: lexicographic by code unit
TextLess(s, t) ==
  \E i \in 1..Len(t) :
    /\ Len(s) >= i - 1
    /\ SubSeq(s, 1, i - 1) = SubSeq(t, 1, i - 1)
    /\ i > Len(s) \/ Ord(s[i]) < Ord(t[i])

\* the Number -1 of lines 170-171
MinusOne == <<"-", "1">>

\* the operator < on two Numbers read as text
NumberLessAsText(x, y) == TextLess(x, y)

\* the operator < on two Numbers, each -1 or a numeral without leading zeros
NumberLess(x, y) ==
  IF x = MinusOne THEN y # MinusOne
  ELSE IF y = MinusOne THEN FALSE
  ELSE Len(x) < Len(y) \/ (Len(x) = Len(y) /\ TextLess(x, y))

\* lines 170-174
CompareEnhancements(enhA, enhB) ==
  IF NumberLess(enhA, enhB) THEN -1
  ELSE IF NumberLess(enhB, enhA) THEN 1
  ELSE 0

\* lines 162-176
CompareParsed(parsedA, parsedB) ==
  IF TextLess(parsedA.family, parsedB.family) THEN -1
  ELSE IF TextLess(parsedB.family, parsedA.family) THEN 1
  ELSE IF NumberLess(parsedA.number, parsedB.number) THEN -1
  ELSE IF NumberLess(parsedB.number, parsedA.number) THEN 1
  ELSE CompareEnhancements(
         IF parsedA.enhancement = NoGroup THEN MinusOne ELSE parsedA.enhancement,
         IF parsedB.enhancement = NoGroup THEN MinusOne ELSE parsedB.enhancement)

\* lines 158-159: an Error thrown by either parse propagates
CompareBoth(parsedA, parsedB) ==
  IF ~parsedA.ok THEN parsedA
  ELSE IF ~parsedB.ok THEN parsedB
  ELSE [ok |-> TRUE, value |-> CompareParsed(parsedA, parsedB)]

compareControlIds(controlIdA, controlIdB) ==
  IF controlIdA = <<>> \/ controlIdB = <<>>
  THEN Throw("Both control IDs are required")
  ELSE CompareBoth(parse(controlIdA), parse(controlIdB))
(***************************************************************************)
(* Inputs of the identifier functions                                      *)
(***************************************************************************)
\* the number of zeros of the longest power of ten among the numerals
MaxZeros == 21

Zeros(n) == [i \in 1..n |-> "0"]

PowerOfTen(n) == <<"1">> \o Zeros(n)

Families ==
  {<<"A","C">>, <<"a","c">>, <<"S","i">>, <<"A">>, <<"A","C","X">>, <<SharpS>>}

Separators == {<<".">>, <<"-">>, <<" ">>, <<>>, <<" "," ">>, <<"_">>}

Numerals == {<<"2">>, <<"1","0">>, <<"0","7">>, <<"0">>, <<>>}
              \cup {PowerOfTen(n) : n \in (MaxZeros - 1)..MaxZeros}

EnhancementNumerals == {<<"1">>, <<"0">>, <<"0","1">>, PowerOfTen(MaxZeros)}

Suffixes == {<<>>, <<"(">>, <<"(","1">>, <<" ","(","1",")">>}
              \cup {<<".">> \o e : e \in EnhancementNumerals}
              \cup {<<"(">> \o e \o <<")">> : e \in EnhancementNumerals}

Texts == {f \o sep \o n \o x :
            f \in Families, sep \in Separators, n \in Numerals, x \in Suffixes}
           \cup {<<>>, <<" ">>}

Formats == {"dot", "hyphen"}

(***************************************************************************)
(* Words of the source, as text                                            *)
(***************************************************************************)
LOW == <<"L","O","W">>

MODERATE == <<"M","O","D","E","R","A","T","E">>

HIGH == <<"H","I","G","H">>

JsonExt == <<".","j","s","o","n">>

BaselineSuffix == <<"_","b","a","s","e","l","i","n","e">>

ac1 == <<"a","c","-","1">>

ac2 == <<"a","c","-","2">>

si4 == <<"s","i","-","4">>

AC1 == <<"A","C","-","1">>

AC2 == <<"A","C","-","2">>

SI4 == <<"S","I","-","4">>

AC2e1 == <<"A","C","-","2","(","1",")">>

ac2dot1 == <<"a","c",".","2",".","1">>

ac1nosep == <<"a","c","1">>

cm6space == <<"c","m"," ","6">>

bogus == <<"b","o","g","u","s">>

(***************************************************************************)
(* The profiles/baselines directory.  A directory is the listing readdir   *)
(* returns; each file carries the identifiers its profile lists under      *)
(* profile.imports[].include-controls[].with-ids, in document order.       *)
(***************************************************************************)
File(name, withIds) == [name |-> name, withIds |-> withIds]

\* scripts/setup-test-data.js: the sample moderate baseline
ModerateSample ==
  File(toLowerCase(MODERATE) \o BaselineSuffix \o JsonExt, <<ac1, ac2, si4>>)

\* a low baseline that lists one control twice, under two spellings
LowRepeating ==
  File(toLowerCase(LOW) \o BaselineSuffix \o JsonExt, <<ac1, AC1, AC2e1>>)

\* a high baseline whose imports include no control
HighEmpty == File(toLowerCase(HIGH) \o BaselineSuffix \o JsonExt, <<>>)

\* a low baseline with an entry that is no control identifier
LowMalformed ==
  File(toLowerCase(LOW) \o BaselineSuffix \o JsonExt, <<ac1, bogus>>)

Readme == File(<<"R","E","A","D","M","E",".","m","d">>, <<>>)

\* a moderate baseline that lists one control more than the sample document
\* of scripts/setup-test-data.js holds, in dot notation
ModerateWide ==
  File(toLowerCase(MODERATE) \o BaselineSuffix \o JsonExt, <<ac1, ac2, si4, ac2dot1>>)

Directories ==
  { <<Readme, LowRepeating, ModerateSample, HighEmpty>>,
    <<Readme, LowMalformed, ModerateWide>> }

(***************************************************************************)
(* oscalService.js: loadBaselineProfiles and getBaselineControls           *)
(***************************************************************************)
LevelNames == {LOW, MODERATE, HIGH}

\* an absent property of this.baselineProfiles
NoProfile == <<>>

\* securityLevel left undefined by the loop over the file names
NoLevel == <<>>

NoProfiles == [l \in LevelNames |-> NoProfile]

\* Object.keys(profiles).length === 0
IsEmptyProfiles(profiles) == \A l \in LevelNames : profiles[l] = NoProfile

\* lines 712-724 on file.toLowerCase()
LevelOfLowerCase(lower) ==
  IF includes(lower, <<"l","o","w">>) THEN LOW
  ELSE IF includes(lower, <<"m","o","d","e","r","a","t","e">>) THEN MODERATE
  ELSE IF includes(lower, <<"h","i","g","h">>) THEN HIGH
  ELSE NoLevel

\* lines 709-724: the security level a file name is mapped to, or none
LevelOfFile(file) == LevelOfLowerCase(toLowerCase(file))

\* lines 726-731
StoreProfile(profiles, level, file) ==
  IF level = NoLevel THEN profiles ELSE [profiles EXCEPT ![level] = file]

\* lines 709-732: the loop over jsonFiles, from file i on
RECURSIVE MapProfileFiles(_, _, _)
MapProfileFiles(jsonFiles, i, profiles) ==
  IF i > Len(jsonFiles) THEN profiles
  ELSE MapProfileFiles(jsonFiles, i + 1,
         StoreProfile(profiles, LevelOfFile(jsonFiles[i].name), jsonFiles[i].name))

IsJsonFile(f) == endsWith(f.name, JsonExt)

\* lines 735-748
LoadedProfiles(profiles) ==
  IF IsEmptyProfiles(profiles)
  THEN Throw("Could not identify security levels in profile files")
  ELSE [ok |-> TRUE, value |-> profiles]

\* lines 700-732
ProfilesOfFiles(jsonFiles) ==
  IF jsonFiles = <<>> THEN Throw("No profile JSON files found")
  ELSE LoadedProfiles(MapProfileFiles(jsonFiles, 1, NoProfiles))

\* loadBaselineProfiles('baseline'): the profiles it returns and stores
loadBaselineProfiles(dir) == ProfilesOfFiles(SelectSeq(dir, IsJsonFile))

\* lines 610-619: a failed load leaves this.baselineProfiles empty
ProfilesOrNone(loaded) == IF loaded.ok THEN loaded.value ELSE NoProfiles

\* initialize(): the baseline profiles after start-up
InitialBaselineProfiles(dir) == ProfilesOrNone(loadBaselineProfiles(dir))

\* fs.readFile(profilePath) and the walk of lines 899-912
ReadWithIds(dir, path) ==
  dir[CHOOSE i \in DOMAIN dir : dir[i].name = path].withIds

\* lines 914-919 without the throw: the list returned as it is
ControlIdsAsFound(controlIds, profileSet) ==
  [ret |-> [ok |-> TRUE, value |-> controlIds], profiles |-> profileSet]

\* lines 914-919
ControlIdsOrThrow(controlIds, profileSet) ==
  IF Len(controlIds) = 0
  THEN [ret |-> Throw("No controls found in profile"), profiles |-> profileSet]
  ELSE [ret |-> [ok |-> TRUE, value |-> controlIds], profiles |-> profileSet]

\* lines 882-919, given the outcome of lines 876-879
ControlsOfLevel(normalizedLevel, loaded, cached, dir) ==
  IF ~loaded.ok THEN [ret |-> loaded, profiles |-> cached]
  ELSE IF normalizedLevel \notin LevelNames
  THEN [ret |-> Throw("Security level not found in profiles"),
        profiles |-> loaded.value]
  ELSE IF loaded.value[normalizedLevel] = NoProfile
  THEN [ret |-> Throw("Security level not found in profiles"),
        profiles |-> loaded.value]
  ELSE ControlIdsOrThrow(ReadWithIds(dir, loaded.value[normalizedLevel]),
                         loaded.value)

\* getBaselineControls(securityLevel): its result (ret) and the value of
\* this.baselineProfiles it leaves (profiles)
getBaselineControls(securityLevel, cached, dir) ==
  ControlsOfLevel(toUpperCase(securityLevel),
                  IF IsEmptyProfiles(cached) THEN loadBaselineProfiles(dir)
                  ELSE [ok |-> TRUE, value |-> cached],
                  cached, dir)


(***************************************************************************)
(* The other oscalService module of the repository, whose                  *)
(* getBaselineControls reads no profile document                           *)
(***************************************************************************)
\* 'AC-n' and 'AC-n(e)' as the literals of lines 550-552 spell them
AcControl(n) == <<"A", "C", "-">> \o Decimal(n)

AcEnhancement(n, e) == AcControl(n) \o <<"(">> \o Decimal(e) \o <<")">>

\* lines 549-553
PlaceholderBaselines(securityLevel) ==
  IF securityLevel = LOW
  THEN <<AcControl(1), AcControl(2), AcControl(3), AcControl(7), AcControl(8),
         AcControl(14), AcControl(17), AcControl(18), AcControl(19),
         AcControl(20), AcControl(22)>>
  ELSE IF securityLevel = MODERATE
  THEN <<AcControl(1), AcControl(2), AcEnhancement(2, 1), AcEnhancement(2, 2),
         AcEnhancement(2, 3), AcEnhancement(2, 4), AcControl(3), AcControl(4),
         AcControl(5), AcControl(6)>>
  ELSE IF securityLevel = HIGH
  THEN <<AcControl(1), AcControl(2), AcEnhancement(2, 1), AcEnhancement(2, 2),
         AcEnhancement(2, 3), AcEnhancement(2, 4), AcEnhancement(2, 5),
         AcEnhancement(2, 11), AcEnhancement(2, 12), AcEnhancement(2, 13)>>
  ELSE NoGroup

\* line 555: baselines[securityLevel] || []
getBaselineControlsPlaceholder(securityLevel) ==
  IF PlaceholderBaselines(securityLevel) = NoGroup THEN [ok |-> TRUE, value |-> <<>>]
  ELSE [ok |-> TRUE, value |-> PlaceholderBaselines(securityLevel)]

(***************************************************************************)
(* oscalService.js: searchControls                                         *)
(***************************************************************************)
Control(id, title, family) == [id |-> id, title |-> title, family |-> family]

\* lines 791-796: the controls searched, in the order of the literal
SearchedControls ==
  << Control(AC1,
             <<"P","o","l","i","c","y"," ","a","n","d"," ","P","r","o","c","e","d","u","r","e","s">>,
             <<"A","C">>),
     Control(AC2,
             <<"A","c","c","o","u","n","t"," ","M","a","n","a","g","e","m","e","n","t">>,
             <<"A","C">>),
     Control(SI4,
             <<"I","n","f","o","r","m","a","t","i","o","n"," ","S","y","s","t","e","m"," ","M","o","n","i","t","o","r","i","n","g">>,
             <<"S","I">>),
     Control(<<"C","M","-","6">>,
             <<"C","o","n","f","i","g","u","r","a","t","i","o","n"," ","S","e","t","t","i","n","g","s">>,
             <<"C","M">>) >>

\* an argument left out
NoText == <<>>

\* lines 799-802
FilterByFamily(controls, family) ==
  IF family = NoText THEN controls
  ELSE SelectSeq(controls, LAMBDA control : control.family = family)

\* lines 805-811
FilterByQuery(controls, query) ==
  IF query = NoText THEN controls
  ELSE SelectSeq(controls,
                 LAMBDA control :
                   \/ includes(toLowerCase(control.id), toLowerCase(query))
                   \/ includes(toLowerCase(control.title), toLowerCase(query)))

\* Array.prototype.slice(0, limit): a negative limit counts from the end
slice(results, limit) ==
  IF limit >= 0
  THEN SubSeq(results, 1, IF limit < Len(results) THEN limit ELSE Len(results))
  ELSE SubSeq(results, 1, IF Len(results) + limit > 0 THEN Len(results) + limit ELSE 0)

\* searchControls(query, family, baseline, limit)
searchControls(query, family, limit) ==
  [ok |-> TRUE,
   value |-> slice(FilterByQuery(FilterByFamily(SearchedControls, family), query),
                   limit)]
(***************************************************************************)
(* sspService.js: the documents and their control implementations          *)
(***************************************************************************)
VARIABLES
  directory,         \* the profiles/baselines directory of the content tree
  baselineProfiles,  \* oscalService.baselineProfiles
  store,             \* SSP_DIR: the document each <id>.json holds, or NoFile
  now,               \* the clock read by new Date()
  last,              \* the last call a handler completed and what it returned
  callers,           \* concurrent addControlImplementation calls in flight
  idm,               \* the identifier functions applied to one input text
  fedrampDirectory,  \* the profiles/fedramp directory of the content tree
  fedrampProfiles    \* oscalService.fedrampProfiles

vars ==
  <<directory, baselineProfiles, store, now, last, callers, idm, fedrampDirectory,
    fedrampProfiles>>

\* a content tree without FedRAMP profiles: loadBaselineProfiles('fedramp')
\* throws at start-up and this.fedrampProfiles stays {}
NoFedramp == fedrampDirectory = <<>> /\ fedrampProfiles = NoProfiles

\* the number of calls that write a document in one behaviour
MaxOps == 3

\* the same, in the behaviours that also look implementations up
MaxLookupOps == 2

NoFile == [exists |-> FALSE]

SampleSspId == "sample-ssp"

\* the identifiers randomUUID() can return
GeneratedIds == {"uuid-1"}

SspIds == {SampleSspId} \cup GeneratedIds

validLevels == {LOW, MODERATE, HIGH}

validStatuses == {"IMPLEMENTED", "PARTIALLY_IMPLEMENTED", "PLANNED",
                  "ALTERNATIVE_IMPLEMENTATION", "NOT_APPLICABLE"}

\* a description is text held in pieces: its characters are those of the
\* pieces in order
PlannedDescription(controlId) ==
  <<"Implementation of ">> \o controlId \o <<" is planned.">>

\* lines 95-102 with the description written from the normalized identifier
SeededFromNormalized(controlId, normalized) ==
  [controlId |-> normalized.value,
   status |-> "PLANNED",
   description |-> PlannedDescription(normalized.value),
   responsibleRoles |-> <<>>]

\* lines 95-102: the implementation seeded for one baseline control, given
\* what normalizeControlId returned for it
SeededImplementation(controlId, normalized) ==
  [controlId |-> normalized.value,
   status |-> "PLANNED",
   description |-> PlannedDescription(controlId),
   responsibleRoles |-> <<>>]

Ssp(id, title, securityLevel, implementations, created, updated) ==
  [exists |-> TRUE, id |-> id, title |-> title,
   securityImpactLevel |-> securityLevel, status |-> "operational",
   controlImplementations |-> implementations,
   created |-> created, updated |-> updated]

\* scripts/setup-test-data.js, createSampleSSP
SampleImplementation(controlId, status, description, roles) ==
  [controlId |-> controlId, status |-> status, description |-> <<description>>,
   responsibleRoles |-> roles, lastUpdated |-> 0]

SampleSsp ==
  Ssp(SampleSspId, "Sample System Security Plan", MODERATE,
      << SampleImplementation(AC1, "IMPLEMENTED", "policy documented",
                              <<"security-team", "it-department">>),
         SampleImplementation(AC2, "PARTIALLY_IMPLEMENTED", "procedures in place",
                              <<"system-administrators">>),
         SampleImplementation(SI4, "PLANNED", "monitoring is planned",
                              <<"security-team">>) >>,
      0, 0)

\* an identifier that has a "." path segment before the name of the sample
\* document
DotSlashSampleSspId == "./sample-ssp"

\* path.join(SSP_DIR, `${sspId}.json`): the file an identifier names, by
\* its name without the extension; path.join drops a "." segment
SspFile(sspId) == IF sspId = DotSlashSampleSspId THEN SampleSspId ELSE sspId

\* getSSP(sspId): readFile and JSON.parse, any failure reported as not found
getSSP(files, sspId) ==
  IF SspFile(sspId) \in DOMAIN files /\ files[SspFile(sspId)].exists
  THEN [ok |-> TRUE, value |-> files[SspFile(sspId)]]
  ELSE Throw("SSP not found")

\* fs.writeFile(path.join(SSP_DIR, `${id}.json`), JSON.stringify(ssp))
writeFile(files, id, ssp) == [files EXCEPT ![SspFile(id)] = ssp]

\* lines 59-63 with the level compared whatever its letter case
IsValidLevelAnyCase(securityLevel) == toUpperCase(securityLevel) \in validLevels

\* createSSP lines 59-63
IsValidLevel(securityLevel) == securityLevel \in validLevels

\* the control identifiers of a list, each as normalizeControlId returns it
NormalizeEach(controlIds) ==
  [i \in DOMAIN controlIds |-> normalizeControlId(controlIds[i])]

\* lines 95-102: baselineControls.map(...), which throws at the first entry
\* normalizeControlId cannot parse
SeedImplementations(baselineControls, normalized) ==
  IF \E i \in DOMAIN normalized : ~normalized[i].ok
  THEN Throw("Invalid control ID format")
  ELSE [ok |-> TRUE,
        value |-> [i \in DOMAIN baselineControls |->
                     SeededImplementation(baselineControls[i], normalized[i])]]

\* lines 104-109
SaveSsp(files, profiles, ssp) ==
  [ret |-> [ok |-> TRUE, value |-> ssp],
   files |-> writeFile(files, ssp.id, ssp),
   profiles |-> profiles]

\* lines 68-109, given the implementations seeded
CreateSeeded(files, profiles, seeded, time, title, securityLevel, id) ==
  IF ~seeded.ok THEN [ret |-> seeded, files |-> files, profiles |-> profiles]
  ELSE SaveSsp(files, profiles,
               Ssp(id, title, securityLevel, seeded.value, time, time))

\* lines 91-109, given what getBaselineControls returned
CreateFromBaseline(files, baseline, time, title, securityLevel, id) ==
  IF ~baseline.ret.ok
  THEN [ret |-> baseline.ret, files |-> files, profiles |-> baseline.profiles]
  ELSE CreateSeeded(files, baseline.profiles,
                    SeedImplementations(baseline.ret.value,
                                        NormalizeEach(baseline.ret.value)),
                    time, title, securityLevel, id)

\* createSSP refusing an identifier that has a document
createSSPIfAbsent(files, cached, dir, time, title, securityLevel, id) ==
  IF files[id].exists
  THEN [ret |-> Throw("SSP already exists"), files |-> files, profiles |-> cached]
  ELSE IF ~IsValidLevel(securityLevel)
  THEN [ret |-> Throw("Invalid security level"), files |-> files,
        profiles |-> cached]
  ELSE CreateFromBaseline(files, getBaselineControls(securityLevel, cached, dir),
                          time, title, securityLevel, id)

\* createSSP(title, description, securityLevel, systemId) with id the value
\* of systemId || randomUUID(): what it returns (ret), the files and the
\* profile cache it leaves
createSSP(files, cached, dir, time, title, securityLevel, id) ==
  IF ~IsValidLevel(securityLevel)
  THEN [ret |-> Throw("Invalid security level"), files |-> files,
        profiles |-> cached]
  ELSE CreateFromBaseline(files, getBaselineControls(securityLevel, cached, dir),
                          time, title, securityLevel, id)

\* Array.prototype.findIndex with impl => impl.controlId === controlId;
\* 0 stands for the -1 of a failed search
findIndex(implementations, controlId) ==
  IF \E i \in DOMAIN implementations : implementations[i].controlId = controlId
  THEN CHOOSE i \in DOMAIN implementations :
         /\ implementations[i].controlId = controlId
         /\ \A j \in 1..(i - 1) : implementations[j].controlId # controlId
  ELSE 0

\* the responsibleRoles argument: an array, or left out / null
NoRoles == [given |-> FALSE]

Roles(array) == [given |-> TRUE, array |-> array]

\* responsibleRoles = [] in the parameter list and responsibleRoles || []
RolesOrEmpty(responsibleRoles) ==
  IF responsibleRoles.given THEN responsibleRoles.array ELSE <<>>

\* lines 197-203
Implementation(controlId, status, description, responsibleRoles, time) ==
  [controlId |-> controlId, status |-> status, description |-> description,
   responsibleRoles |-> RolesOrEmpty(responsibleRoles), lastUpdated |-> time]

\* lines 205-209 with the push taken whatever the index
PushImplementation(implementations, index, implementation) ==
  Append(implementations, implementation)

\* lines 205-209 with the first record replaced whatever the index
PutImplementationFirst(implementations, index, implementation) ==
  [implementations EXCEPT ![1] = implementation]

\* lines 205-209: replace at the index found, or push
PutImplementation(implementations, index, implementation) ==
  IF index >= 1
  THEN [implementations EXCEPT ![index] = implementation]
  ELSE Append(implementations, implementation)

\* lines 191-218: the document written and the implementation returned
StoreImplementation(ssp, index, implementation, time) ==
  [ret |-> [ok |-> TRUE, value |-> implementation],
   written |-> [ssp EXCEPT
                  !.controlImplementations =
                     PutImplementation(ssp.controlImplementations, index,
                                       implementation),
                  !.updated = time]]

\* lines 185-218, given what normalizeControlId returned
UpdateNormalized(ssp, normalized, implementationStatus, description, responsibleRoles, time) ==
  IF ~normalized.ok THEN [ret |-> normalized, written |-> NoFile]
  ELSE IF implementationStatus \notin validStatuses
  THEN [ret |-> Throw("Invalid implementation status"), written |-> NoFile]
  ELSE StoreImplementation(ssp,
         findIndex(ssp.controlImplementations, normalized.value),
         Implementation(normalized.value, implementationStatus, description,
                        responsibleRoles, time),
         time)

\* lines 182-218 with the identifier, once checked, used as the caller
\* spelled it
UpdateSspAsSpelled(ssp, controlId, implementationStatus, description, responsibleRoles, time) ==
  UpdateNormalized(ssp,
                   IF normalizeControlId(controlId).ok
                   THEN [ok |-> TRUE, value |-> controlId]
                   ELSE normalizeControlId(controlId),
                   implementationStatus, description, responsibleRoles, time)

\* lines 182-218, the part of addControlImplementation that runs without
\* interruption once getSSP has returned ssp: what it returns and the
\* document it writes (none when it throws)
UpdateSsp(ssp, controlId, implementationStatus, description, responsibleRoles, time) ==
  UpdateNormalized(ssp, normalizeControlId(controlId), implementationStatus,
                   description, responsibleRoles, time)

\* lines 214-218 or the throw: the files a finished update leaves
Written(files, sspId, update) ==
  IF ~update.ret.ok THEN [ret |-> update.ret, files |-> files]
  ELSE [ret |-> update.ret, files |-> writeFile(files, sspId, update.written)]

\* lines 180-218 with the document stamped and saved before the identifier
\* and the status are checked
UpdateReadStamping(files, read, time, sspId, controlId, implementationStatus, description, responsibleRoles) ==
  IF ~read.ok THEN [ret |-> read, files |-> files]
  ELSE LET update == UpdateSsp(read.value, controlId, implementationStatus,
                               description, responsibleRoles, time)
       IN  IF update.ret.ok THEN Written(files, sspId, update)
           ELSE [ret |-> update.ret,
                 files |-> writeFile(files, sspId,
                                     [read.value EXCEPT !.updated = time])]

\* lines 180-218, given what getSSP returned
UpdateRead(files, read, time, sspId, controlId, implementationStatus, description, responsibleRoles) ==
  IF ~read.ok THEN [ret |-> read, files |-> files]
  ELSE Written(files, sspId,
               UpdateSsp(read.value, controlId, implementationStatus,
                         description, responsibleRoles, time))

\* addControlImplementation run from its read to its write with no other
\* call in between
addControlImplementation(files, time, sspId, controlId, implementationStatus, description, responsibleRoles) ==
  UpdateRead(files, getSSP(files, sspId), time, sspId, controlId,
             implementationStatus, description, responsibleRoles)

\* lines 240-249
FindImplementation(implementations, index) ==
  IF index = 0 THEN Throw("Control implementation not found")
  ELSE [ok |-> TRUE, value |-> implementations[index]]

\* lines 237-249, given what getSSP and normalizeControlId returned
LookupNormalized(read, normalized) ==
  IF ~read.ok THEN read
  ELSE IF ~normalized.ok THEN normalized
  ELSE FindImplementation(read.value.controlImplementations,
         findIndex(read.value.controlImplementations, normalized.value))

\* getControlImplementation with the identifier, once checked, looked up as
\* the caller spelled it
getControlImplementationAsSpelled(files, sspId, controlId) ==
  LookupNormalized(getSSP(files, sspId),
                   IF normalizeControlId(controlId).ok
                   THEN [ok |-> TRUE, value |-> controlId]
                   ELSE normalizeControlId(controlId))

\* getControlImplementation(sspId, controlId)
getControlImplementation(files, sspId, controlId) ==
  LookupNormalized(getSSP(files, sspId), normalizeControlId(controlId))

\* lines 305-315: the tally of the loop over ssp.controlImplementations,
\* from implementation i on
RECURSIVE TallyByStatus(_, _, _)
TallyByStatus(implementations, i, implementationByStatus) ==
  IF i > Len(implementations) THEN implementationByStatus
  ELSE TallyByStatus(implementations, i + 1,
         [implementationByStatus EXCEPT
            ![implementations[i].status] = @ + 1])

\* lines 321-322 with a partial implementation counted as a full one
PercentageFullPartial(implementedCount, partiallyImplementedCount, totalControls) ==
  IF totalControls = 0 THEN 0
  ELSE (10000 * (2 * implementedCount + 2 * partiallyImplementedCount) + totalControls)
         \div (2 * totalControls)

\* lines 321-322 and 328: ((implemented + partial * 0.5) / total * 100).toFixed(2)
\* read back by parseFloat, held in hundredths of a percent.  toFixed rounds
\* to the nearest hundredth; below 16 controls no quotient lies halfway
\* between two hundredths, so the rounding of the double is that of the
\* exact quotient.
PercentageInHundredths(implementedCount, partiallyImplementedCount, totalControls) ==
  IF totalControls = 0 THEN 0
  ELSE (10000 * (2 * implementedCount + partiallyImplementedCount) + totalControls)
         \div (2 * totalControls)

\* lines 298-302 with the filter skipped for a document without records
MissingAmongRecorded(normalizedBaselineControls, implementations) ==
  IF implementations = <<>> THEN <<>>
  ELSE SelectSeq(normalizedBaselineControls,
                 LAMBDA controlId :
                   \A i \in DOMAIN implementations :
                     implementations[i].controlId # controlId)

\* lines 298-302, given the baseline controls normalized
MissingControls(normalizedBaselineControls, implementations) ==
  LET Missing(controlId) ==
        \A i \in DOMAIN implementations : implementations[i].controlId # controlId
  IN  SelectSeq(normalizedBaselineControls, Missing)

\* lines 324-330
Report(missingControls, implementationByStatus, totalControls) ==
  [valid |-> Len(missingControls) = 0,
   missingControls |-> missingControls,
   implementationByStatus |-> implementationByStatus,
   implementationPercentage |->
     PercentageInHundredths(implementationByStatus["IMPLEMENTED"],
                            implementationByStatus["PARTIALLY_IMPLEMENTED"],
                            totalControls),
   totalControls |-> totalControls]

\* lines 297-330 with the size of the baseline taken as totalControls
ValidateAgainstBaselineSize(ssp, normalized, profiles) ==
  IF \E i \in DOMAIN normalized : ~normalized[i].ok
  THEN [ret |-> Throw("Invalid control ID format"), profiles |-> profiles]
  ELSE [ret |-> [ok |-> TRUE,
                 value |-> Report(
                   MissingControls([i \in DOMAIN normalized |-> normalized[i].value],
                                   ssp.controlImplementations),
                   TallyByStatus(ssp.controlImplementations, 1,
                                 [st \in validStatuses |-> 0]),
                   Len(normalized))],
        profiles |-> profiles]

\* lines 297-330, given what normalizeControlId returned for each baseline
\* control: the map of line 297 throws at the first it cannot parse
ValidateNormalized(ssp, normalized, profiles) ==
  IF \E i \in DOMAIN normalized : ~normalized[i].ok
  THEN [ret |-> Throw("Invalid control ID format"), profiles |-> profiles]
  ELSE [ret |-> [ok |-> TRUE,
                 value |-> Report(
                   MissingControls([i \in DOMAIN normalized |-> normalized[i].value],
                                   ssp.controlImplementations),
                   TallyByStatus(ssp.controlImplementations, 1,
                                 [st \in validStatuses |-> 0]),
                   Len(ssp.controlImplementations))],
        profiles |-> profiles]

\* line 297 without the map: the baseline controls taken as the profile
\* spells them
RawBaselineControls(baselineControls) ==
  [i \in DOMAIN baselineControls |-> [ok |-> TRUE, value |-> baselineControls[i]]]

\* line 297: baselineControls.map(c => normalizeControlId(c))
NormalizedBaselineControls(baselineControls) == NormalizeEach(baselineControls)

\* lines 293-330, given what getBaselineControls returned
ValidateAgainst(ssp, baseline) ==
  IF ~baseline.ret.ok THEN [ret |-> baseline.ret, profiles |-> baseline.profiles]
  ELSE ValidateNormalized(ssp, NormalizedBaselineControls(baseline.ret.value),
                          baseline.profiles)

\* lines 290-330, given what getSSP returned
ValidateRead(read, cached, dir) ==
  IF ~read.ok THEN [ret |-> read, profiles |-> cached]
  ELSE ValidateAgainst(read.value,
         getBaselineControls(read.value.securityImpactLevel, cached, dir))

\* validateSSP(sspId): what it returns and the profile cache it leaves
validateSSP(files, cached, dir, sspId) ==
  ValidateRead(getSSP(files, sspId), cached, dir)

(***************************************************************************)
(* What the callers send                                                   *)
(***************************************************************************)
Titles == {"Test SSP from MCP"}

LevelInputs == {LOW, MODERATE, HIGH, toLowerCase(MODERATE)}

\* systemId: an identifier, or left out
NoSystemId == "undefined"

SystemIdInputs == {SampleSspId, NoSystemId}

SspIdInputs == SspIds

GetSspInputs == SspIds \cup {DotSlashSampleSspId}

ControlInputs == {AC1, AC2, ac2dot1, bogus}

ControlLookups == {ac1nosep, AC2e1, cm6space, bogus}

\* implementationStatus, description and responsibleRoles of a request
Payload(status, description, responsibleRoles) ==
  [status |-> status, description |-> description,
   responsibleRoles |-> responsibleRoles]

Payloads ==
  { Payload("IMPLEMENTED", <<"This is a test implementation">>, Roles(<<"test-team">>)),
    Payload("PARTIALLY_IMPLEMENTED", <<"Work in progress">>, NoRoles),
    Payload("ALTERNATIVE_IMPLEMENTATION", <<"Compensating control">>, Roles(<<>>)),
    Payload("NOT_APPLICABLE", <<>>, NoRoles),
    Payload("DONE", <<"This is a test implementation">>, Roles(<<"test-team">>)) }


(***************************************************************************)
(* sspService.js: the operations that only read                            *)
(***************************************************************************)
\* fs.readdir(SSP_DIR) filtered to the .json files: the identifiers of the
\* documents, in the order of the listing
SspListing == <<SampleSspId, "uuid-1">>

\* lines 150-157: the summary of one document
Summary(ssp) ==
  [id |-> ssp.id, title |-> ssp.title, securityLevel |-> ssp.securityImpactLevel,
   status |-> ssp.status, created |-> ssp.created, updated |-> ssp.updated]

\* listSSPs()
listSSPs(files) ==
  [ok |-> TRUE,
   value |-> LET present == SelectSeq(SspListing, LAMBDA id : files[id].exists)
             IN  [i \in DOMAIN present |-> Summary(files[present[i]])]]

\* the status argument left out
NoStatus == "undefined"

\* lines 268-274, given what getSSP returned
FilterByStatus(read, status) ==
  IF ~read.ok THEN read
  ELSE IF status = NoStatus
  THEN [ok |-> TRUE, value |-> read.value.controlImplementations]
  ELSE [ok |-> TRUE,
        value |-> SelectSeq(read.value.controlImplementations,
                            LAMBDA impl : impl.status = status)]

\* listControlImplementations(sspId, status)
listControlImplementations(files, sspId, status) ==
  FilterByStatus(getSSP(files, sspId), status)
(***************************************************************************)
(* The handlers, each run from its first line to its return                *)
(***************************************************************************)
NoCall == [op |-> "none"]

Callers == {"c1", "c2"}

Idle == [pc |-> "idle"]

IdIdle == [pc |-> "idle"]

ServiceInit ==
  /\ directory \in Directories
  /\ baselineProfiles = InitialBaselineProfiles(directory)
  /\ store = [id \in SspIds |-> IF id = SampleSspId THEN SampleSsp ELSE NoFile]
  /\ now = 1
  /\ last = NoCall
  /\ callers = [c \in Callers |-> Idle]

Init == ServiceInit /\ idm = IdIdle /\ NoFedramp

\* the clock after a call: time has passed when it wrote a document
Tick(ret) == IF ret.ok THEN now + 1 ELSE now

\* the record of a completed call; again tells that the call completed
\* before it was the same call with the same arguments
Call(op, args, ret) ==
  [op |-> op, args |-> args, ret |-> ret,
   again |-> IF last.op = op THEN last.args = args ELSE FALSE]

\* systemId || randomUUID()
IsIdOf(id, systemId) ==
  IF systemId = NoSystemId THEN id \in GeneratedIds /\ ~store[id].exists
  ELSE id = systemId

CreateSSP(title, securityLevel, systemId) ==
  /\ \E id \in SspIds :
       /\ IsIdOf(id, systemId)
       /\ \E r \in {createSSP(store, baselineProfiles, directory, now, title,
                             securityLevel, id)} :
            /\ store' = r.files
            /\ baselineProfiles' = r.profiles
            /\ now' = Tick(r.ret)
            /\ last' = Call("createSSP",
                            [securityLevel |-> securityLevel, systemId |-> systemId],
                            r.ret)
  /\ UNCHANGED <<directory, callers, idm, fedrampDirectory, fedrampProfiles>>

AddControlImplementation(sspId, controlId, payload) ==
  /\ \E r \in {addControlImplementation(store, now, sspId, controlId,
                  payload.status, payload.description, payload.responsibleRoles)} :
       /\ store' = r.files
       /\ now' = Tick(r.ret)
       /\ last' = Call("addControlImplementation",
                       [sspId |-> sspId, controlId |-> controlId, payload |-> payload],
                       r.ret)
  /\ UNCHANGED <<directory, baselineProfiles, callers, idm, fedrampDirectory, fedrampProfiles>>

GetControlImplementation(sspId, controlId) ==
  /\ last' = Call("getControlImplementation",
                  [sspId |-> sspId, controlId |-> controlId],
                  getControlImplementation(store, sspId, controlId))
  /\ UNCHANGED <<directory, baselineProfiles, store, now, callers, idm, fedrampDirectory, fedrampProfiles>>

GetSSP(sspId) ==
  /\ last' = Call("getSSP", [sspId |-> sspId], getSSP(store, sspId))
  /\ UNCHANGED <<directory, baselineProfiles, store, now, callers, idm, fedrampDirectory, fedrampProfiles>>

ValidateSSP(sspId) ==
  /\ \E r \in {validateSSP(store, baselineProfiles, directory, sspId)} :
       /\ baselineProfiles' = r.profiles
       /\ last' = Call("validateSSP", [sspId |-> sspId], r.ret)
  /\ UNCHANGED <<directory, store, now, callers, idm, fedrampDirectory, fedrampProfiles>>

\* the service called by one caller at a time: documents are created,
\* implementations recorded and documents validated
Next ==
  \/ \E title \in Titles, securityLevel \in LevelInputs, systemId \in SystemIdInputs :
       now <= MaxOps /\ CreateSSP(title, securityLevel, systemId)
  \/ \E sspId \in SspIdInputs, controlId \in ControlInputs, payload \in Payloads :
       now <= MaxOps /\ AddControlImplementation(sspId, controlId, payload)
  \/ \E sspId \in SspIdInputs : ValidateSSP(sspId)

Spec == Init /\ [][Next]_vars

\* the same, with implementations looked up instead of documents validated
NextLookup ==
  \/ \E title \in Titles, securityLevel \in LevelInputs, systemId \in SystemIdInputs :
       now <= MaxLookupOps /\ CreateSSP(title, securityLevel, systemId)
  \/ \E sspId \in SspIdInputs, controlId \in ControlInputs, payload \in Payloads :
       now <= MaxLookupOps /\ AddControlImplementation(sspId, controlId, payload)
  \/ \E sspId \in SspIdInputs, controlId \in ControlLookups :
       GetControlImplementation(sspId, controlId)
  \/ \E sspId \in GetSspInputs : GetSSP(sspId)

SpecLookup == Init /\ [][NextLookup]_vars

(***************************************************************************)
(* mcpServer.js: the stdin 'data' handler is async, so the requests of two *)
(* data events are in flight together and each addControlImplementation    *)
(* gives way at its awaits: once while getSSP reads the file, once while   *)
(* writeFile writes it.  Lines 182-213 run without interruption; the write *)
(* of the file is taken as one step.                                       *)
(***************************************************************************)
\* a call suspended at await this.getSSP(sspId), resumed with ssp
Suspended(sspId, controlId, payload, ssp) ==
  [pc |-> "read", sspId |-> sspId, controlId |-> controlId, payload |-> payload,
   ssp |-> ssp]

\* a call that has returned or thrown; at is the time of its write
Returned(call, ret, at) ==
  [pc |-> "done", sspId |-> call.sspId, controlId |-> call.controlId,
   payload |-> call.payload, ssp |-> call.ssp, ret |-> ret, at |-> at]

\* line 180, given what getSSP returned
AfterRead(sspId, controlId, payload, read) ==
  IF read.ok THEN Suspended(sspId, controlId, payload, read.value)
  ELSE Returned(Suspended(sspId, controlId, payload, NoFile), read, now)

\* line 180: the caller's request starts and reads the document
CallerRead(c, sspId, controlId, payload) ==
  /\ callers[c].pc = "idle"
  /\ callers' = [callers EXCEPT
                   ![c] = AfterRead(sspId, controlId, payload, getSSP(store, sspId))]
  /\ UNCHANGED <<directory, baselineProfiles, store, now, last, idm, fedrampDirectory, fedrampProfiles>>

\* lines 182-218 on the document ssp
WriteFrom(c, ssp) ==
  /\ callers[c].pc = "read"
  /\ \E w \in {Written(store, callers[c].sspId,
                       UpdateSsp(ssp, callers[c].controlId, callers[c].payload.status,
                                 callers[c].payload.description,
                                 callers[c].payload.responsibleRoles, now))} :
       /\ store' = w.files
       /\ now' = Tick(w.ret)
       /\ callers' = [callers EXCEPT ![c] = Returned(callers[c], w.ret, now)]
  /\ UNCHANGED <<directory, baselineProfiles, last, idm, fedrampDirectory, fedrampProfiles>>

\* lines 182-218 on the document as the file holds it when the call resumes
CallerWriteReread(c) == WriteFrom(c, store[callers[c].sspId])

\* lines 182-218: the call resumes with the document it read and writes it
CallerWrite(c) == WriteFrom(c, callers[c].ssp)

NextRace ==
  \/ \E c \in Callers, sspId \in SspIdInputs, controlId \in ControlInputs,
        payload \in Payloads :
       CallerRead(c, sspId, controlId, payload)
  \/ \E c \in Callers : CallerWrite(c)

SpecRace == Init /\ [][NextRace]_vars

(***************************************************************************)
(* The identifier functions applied to one text                            *)
(***************************************************************************)
InitId ==
  /\ directory = <<>>
  /\ baselineProfiles = NoProfiles
  /\ store = [id \in SspIds |-> NoFile]
  /\ now = 1
  /\ last = NoCall
  /\ callers = [c \in Callers |-> Idle]
  /\ idm \in {[pc |-> "input", controlId |-> t] : t \in Texts}
  /\ NoFedramp

\* parse(controlId)
IdParse ==
  /\ idm.pc = "input"
  /\ idm' = [pc |-> "parsed", controlId |-> idm.controlId,
             parsed |-> parse(idm.controlId)]
  /\ UNCHANGED <<directory, baselineProfiles, store, now, last, callers, fedrampDirectory, fedrampProfiles>>

\* the text a parsed identifier is rendered as, and that text parsed
Reparsed(controlId, parsed, format, rendering) ==
  [pc |-> "reparsed", controlId |-> controlId, parsed |-> parsed,
   format |-> format, rendering |-> rendering, reparsed |-> parse(rendering)]

\* parse applied to parsed.internal or parsed.mcp
IdReparse(format) ==
  /\ idm.pc = "parsed"
  /\ idm.parsed.ok
  /\ idm' = Reparsed(idm.controlId, idm.parsed, format,
                     Rendering(idm.parsed, format).value)
  /\ UNCHANGED <<directory, baselineProfiles, store, now, last, callers, fedrampDirectory, fedrampProfiles>>

\* normalize(controlId, format)
IdNormalize(format) ==
  /\ idm.pc = "input"
  /\ idm' = [pc |-> "normalized", controlId |-> idm.controlId, format |-> format,
             normalized |-> normalize(idm.controlId, format)]
  /\ UNCHANGED <<directory, baselineProfiles, store, now, last, callers, fedrampDirectory, fedrampProfiles>>

\* normalize applied to what normalize returned
IdRenormalize ==
  /\ idm.pc = "normalized"
  /\ idm.normalized.ok
  /\ idm' = [pc |-> "renormalized", controlId |-> idm.controlId,
             format |-> idm.format, normalized |-> idm.normalized,
             renormalized |-> normalize(idm.normalized.value, idm.format)]
  /\ UNCHANGED <<directory, baselineProfiles, store, now, last, callers, fedrampDirectory, fedrampProfiles>>

NextId ==
  \/ IdParse
  \/ \E format \in Formats : IdReparse(format)
  \/ \E format \in Formats : IdNormalize(format)
  \/ IdRenormalize

SpecId == InitId /\ [][NextId]_vars


(***************************************************************************)
(* compareControlIds applied to the pairs of three texts                   *)
(***************************************************************************)
AC9 == <<"A","C","-","9">>

AC10 == <<"A","C","-","1","0">>

AC10e1 == <<"A","C","-","1","0","(","1",")">>

CompareTexts ==
  {AC9, AC10, AC10e1, <<"a","c","1","0">>, <<"a","c",".","1","0",".","0">>,
   <<"A","C","-","1","0","(","1","0",")">>, <<"a","c",".","0","9">>,
   SI4, <<"s","i",".","4",".","1">>, <<"C","M"," ","1","0","0">>, bogus, <<>>}

\* the calls made on the operands a, b and c
ComparePairs == {<<"a", "b">>, <<"b", "a">>, <<"b", "c">>, <<"a", "c">>}

NotCompared == [ok |-> FALSE, error |-> "not called"]

InitCompare ==
  /\ directory = <<>>
  /\ baselineProfiles = NoProfiles
  /\ store = [id \in SspIds |-> NoFile]
  /\ now = 1
  /\ last = NoCall
  /\ callers = [c \in Callers |-> Idle]
  /\ idm \in {[pc |-> "compare", a |-> x, b |-> y, c |-> z,
               result |-> [p \in ComparePairs |-> NotCompared]] :
                x \in CompareTexts, y \in CompareTexts, z \in CompareTexts}
  /\ NoFedramp

\* compareControlIds(idm[p[1]], idm[p[2]])
IdCompare(p) ==
  /\ idm.pc = "compare"
  /\ idm.result[p] = NotCompared
  /\ idm' = [idm EXCEPT !.result[p] = compareControlIds(idm[p[1]], idm[p[2]])]
  /\ UNCHANGED <<directory, baselineProfiles, store, now, last, callers, fedrampDirectory, fedrampProfiles>>

NextCompare == \E p \in ComparePairs : IdCompare(p)

SpecCompare == InitCompare /\ [][NextCompare]_vars

(***************************************************************************)
(* getBaselineControls called on its own, in either oscalService module    *)
(***************************************************************************)
NONE == <<"N","O","N","E">>

BaselineLevelInputs == LevelInputs \cup {toLowerCase(LOW), toLowerCase(HIGH), NONE}

\* directories with no profile document at all, and with one
BaselineDirectories == Directories \cup {<<Readme>>, <<Readme, ModerateSample>>}

InitBaseline ==
  /\ directory \in BaselineDirectories
  /\ baselineProfiles = InitialBaselineProfiles(directory)
  /\ store = [id \in SspIds |-> IF id = SampleSspId THEN SampleSsp ELSE NoFile]
  /\ now = 1
  /\ last = NoCall
  /\ callers = [c \in Callers |-> Idle]
  /\ idm = IdIdle /\ NoFedramp

\* oscalService.getBaselineControls(securityLevel) of lines 862-920
GetBaselineControls(securityLevel) ==
  /\ \E r \in {getBaselineControls(securityLevel, baselineProfiles, directory)} :
       /\ baselineProfiles' = r.profiles
       /\ last' = Call("getBaselineControls", [securityLevel |-> securityLevel], r.ret)
  /\ UNCHANGED <<directory, store, now, callers, idm, fedrampDirectory, fedrampProfiles>>

\* oscalService.getBaselineControls(securityLevel) of lines 545-560
GetBaselineControlsPlaceholder(securityLevel) ==
  /\ last' = Call("getBaselineControls (placeholder)",
                  [securityLevel |-> securityLevel],
                  getBaselineControlsPlaceholder(securityLevel))
  /\ UNCHANGED <<directory, baselineProfiles, store, now, callers, idm, fedrampDirectory, fedrampProfiles>>

NextBaseline ==
  \/ \E securityLevel \in BaselineLevelInputs : GetBaselineControls(securityLevel)
  \/ \E securityLevel \in BaselineLevelInputs :
       GetBaselineControlsPlaceholder(securityLevel)

SpecBaseline == InitBaseline /\ [][NextBaseline]_vars

(***************************************************************************)
(* The service started on a data directory whose document has no records:  *)
(* a file of SSP_DIR with controlImplementations: []                       *)
(***************************************************************************)
NoRecordsSsp(securityLevel) ==
  Ssp(SampleSspId, "Sample System Security Plan", securityLevel, <<>>, 0, 0)

InitNoRecords ==
  /\ directory \in Directories
  /\ baselineProfiles = InitialBaselineProfiles(directory)
  /\ store \in {[id \in SspIds |->
                   IF id = SampleSspId THEN NoRecordsSsp(securityLevel) ELSE NoFile] :
                  securityLevel \in validLevels}
  /\ now = 1
  /\ last = NoCall
  /\ callers = [c \in Callers |-> Idle]
  /\ idm = IdIdle /\ NoFedramp

NextNoRecords ==
  \/ \E title \in Titles, securityLevel \in LevelInputs, systemId \in SystemIdInputs :
       now <= MaxLookupOps /\ CreateSSP(title, securityLevel, systemId)
  \/ \E sspId \in SspIdInputs, controlId \in ControlInputs, payload \in Payloads :
       now <= MaxLookupOps /\ AddControlImplementation(sspId, controlId, payload)
  \/ \E sspId \in SspIdInputs : ValidateSSP(sspId)

SpecNoRecords == InitNoRecords /\ [][NextNoRecords]_vars

(***************************************************************************)
(* The operations that only read, each in flight from the await of its     *)
(* file reads to its return, two requests at a time                        *)
(***************************************************************************)
\* the number of writes that prepare the documents the reads find
MaxReadOps == 1

ReadRequest(op, sspId, controlId, status) ==
  [op |-> op, sspId |-> sspId, controlId |-> controlId, status |-> status]

ReadRequests ==
  {ReadRequest("getSSP", id, <<>>, NoStatus) : id \in GetSspInputs}
    \cup {ReadRequest("listSSPs", NoSystemId, <<>>, NoStatus)}
    \cup {ReadRequest("getControlImplementation", SampleSspId, t, NoStatus) :
            t \in {AC1, bogus}}
    \cup {ReadRequest("listControlImplementations", id, <<>>, st) :
            id \in SspIds, st \in {NoStatus, "PLANNED"}}
    \cup {ReadRequest("validateSSP", id, <<>>, NoStatus) : id \in SspIds}

\* what the operation returns from the files it has read, and the profile
\* cache it leaves
ReadResult(request, files, cached, dir) ==
  CASE request.op = "getSSP" ->
         [ret |-> getSSP(files, request.sspId), profiles |-> cached]
    [] request.op = "listSSPs" ->
         [ret |-> listSSPs(files), profiles |-> cached]
    [] request.op = "getControlImplementation" ->
         [ret |-> getControlImplementation(files, request.sspId, request.controlId),
          profiles |-> cached]
    [] request.op = "listControlImplementations" ->
         [ret |-> listControlImplementations(files, request.sspId, request.status),
          profiles |-> cached]
    [] request.op = "validateSSP" ->
         validateSSP(files, cached, dir, request.sspId)

\* the request starts and reads the files
ReadBegin(c, request) ==
  /\ callers[c].pc = "idle"
  /\ callers' = [callers EXCEPT
                   ![c] = [pc |-> "reading", request |-> request, files |-> store]]
  /\ UNCHANGED <<directory, baselineProfiles, store, now, last, idm, fedrampDirectory, fedrampProfiles>>

\* the request returns or throws, the files being left as written
ReadReturn(c, written) ==
  /\ callers[c].pc = "reading"
  /\ \E r \in {ReadResult(callers[c].request, callers[c].files, baselineProfiles,
                          directory)} :
       /\ baselineProfiles' = r.profiles
       /\ last' = Call(callers[c].request.op, callers[c].request, r.ret)
  /\ callers' = [callers EXCEPT ![c] = Idle]
  /\ store' = written
  /\ UNCHANGED <<directory, now, idm, fedrampDirectory, fedrampProfiles>>

\* a return that stamps the document of the request as read at this time
ReadEndStamping(c) ==
  ReadReturn(c, IF getSSP(store, callers[c].request.sspId).ok
                THEN writeFile(store, callers[c].request.sspId,
                               [getSSP(store, callers[c].request.sspId).value
                                  EXCEPT !.updated = now + 1])
                ELSE store)

\* none of the five operations writes a file
ReadEnd(c) == ReadReturn(c, store)

AllIdle == \A c \in Callers : callers[c].pc = "idle"

NextRead ==
  \/ \E title \in Titles, securityLevel \in LevelInputs, systemId \in SystemIdInputs :
       now <= MaxReadOps /\ AllIdle /\ CreateSSP(title, securityLevel, systemId)
  \/ \E sspId \in SspIdInputs, controlId \in ControlInputs, payload \in Payloads :
       now <= MaxReadOps /\ AllIdle
         /\ AddControlImplementation(sspId, controlId, payload)
  \/ \E c \in Callers, request \in ReadRequests : ReadBegin(c, request)
  \/ \E c \in Callers : ReadEnd(c)

SpecRead == Init /\ [][NextRead]_vars

(***************************************************************************)
(* searchControls called on its own                                        *)
(***************************************************************************)
Queries == {NoText, <<"a","c">>, <<"A","C","-">>, <<"o","n">>, <<"M","A","N","A","G","E","M","E","N","T">>, <<"z","z">>}

FamilyFilters == {NoText, <<"A","C">>, <<"S","I">>, <<"C","M">>, <<"a","c">>}

\* the default limit of the handler
DefaultLimit == 20

Limits == {0, 1, 2, DefaultLimit}

SearchControls(query, family, limit) ==
  /\ last' = Call("searchControls",
                  [query |-> query, family |-> family, limit |-> limit],
                  searchControls(query, family, limit))
  /\ UNCHANGED <<directory, baselineProfiles, store, now, callers, idm, fedrampDirectory, fedrampProfiles>>

NextSearch ==
  \E query \in Queries, family \in FamilyFilters, limit \in Limits :
    SearchControls(query, family, limit)

SpecSearch == Init /\ [][NextSearch]_vars

(***************************************************************************)
(* mcpServer.js: the lines of one data event, handled one after another.   *)
(* The id of a request is taken to be the position of its line.            *)
(***************************************************************************)
\* the lines one data event brings
MaxLines == 2

\* the methods setupMcpServer registers
methods ==
  {"getControl", "searchControls", "getControlFamilies", "createSSP", "getSSP",
   "listSSPs", "addControlImplementation", "getControlImplementation",
   "listControlImplementations", "validateSSP", "getExtensionControl",
   "searchExtensionControls", "getExtensionControlFamilies"}

\* the methods the README lists
ReadmeMethods ==
  {"getControl", "searchControls", "getControlFamilies", "createSSP", "getSSP",
   "listSSPs", "addControlImplementation", "getControlImplementation",
   "listControlImplementations", "validateSSP"}

\* the names a plain object answers to without their being registered
ObjectPrototype == {"toString"}

\* methods[method] is truthy
HasHandler(method) == method \in methods \cup ObjectPrototype

Params(sspId, controlId, payload) ==
  [sspId |-> sspId, controlId |-> controlId, payload |-> payload]

NoParams == Params("", <<>>, Payload("", <<>>, NoRoles))

\* a line JSON.parse rejects, a line of white space, a line that parses as
\* a request
Malformed == [kind |-> "malformed", method |-> "", params |-> NoParams]

Blank == [kind |-> "blank", method |-> "", params |-> NoParams]

Request(method, params) == [kind |-> "request", method |-> method, params |-> params]

Lines ==
  { Malformed, Blank,
    Request("addControlImplementation",
            Params(SampleSspId, AC1,
                   Payload("IMPLEMENTED", <<"This is a test implementation">>,
                           Roles(<<"test-team">>)))),
    Request("addControlImplementation",
            Params(SampleSspId, <<"C","M","-","6">>,
                   Payload("PARTIALLY_IMPLEMENTED", <<"Work in progress">>, NoRoles))),
    Request("getSSP", Params("uuid-1", <<>>, Payload("", <<>>, NoRoles))),
    Request("noSuchMethod", NoParams),
    Request("toString", NoParams) }

RECURSIVE SeqsUpTo(_, _)
SeqsUpTo(S, n) ==
  IF n = 0 THEN {<<>>}
  ELSE LET shorter == SeqsUpTo(S, n - 1)
       IN  shorter \cup {Append(s, x) : s \in shorter, x \in S}

Chunks == SeqsUpTo(Lines, MaxLines) \ {<<>>}

NotRead == [ok |-> FALSE, error |-> "not read"]

\* the invocation of the 'data' handler for one chunk, at its first line
Chunk(lines) ==
  [pc |-> "chunk", lines |-> lines,
   phase |-> [k \in DOMAIN lines |-> "pending"],
   held |-> [k \in DOMAIN lines |-> NotRead],
   out |-> <<>>]

Phase(chunk, k, phase) == [chunk EXCEPT !.phase[k] = phase]

\* process.stdout.write(JSON.stringify(response) + '\n')
Respond(chunk, response) == [chunk EXCEPT !.out = Append(@, response)]

\* lines 54-62
MethodNotFound(id, method) ==
  [id |-> id, code |-> -32601, ok |-> FALSE,
   body |-> "Method not found: " \o method]

\* lines 67-83, given what the handler returned or threw
Response(id, ret) ==
  IF ret.ok THEN [id |-> id, code |-> 0, ok |-> TRUE, body |-> ret.value]
  ELSE [id |-> id, code |-> -32000, ok |-> FALSE, body |-> ret.error]

\* the outer catch: the lines from the one that threw on are not handled
Dropped(chunk, k) ==
  [chunk EXCEPT !.phase = [j \in DOMAIN chunk.lines |->
                             IF j >= k THEN "dropped" ELSE chunk.phase[j]]]

\* line 66 never giving way
NeverAwaits(line) == FALSE

\* line 66: await methods[method](params || {}) gives way until the
\* handler has returned or thrown
Awaits(line) == TRUE

\* lines 47-85 from line k of the chunk on, up to the next await
RECURSIVE Loop(_, _)
Loop(chunk, k) ==
  IF k > Len(chunk.lines) THEN chunk
  ELSE IF chunk.phase[k] # "pending" THEN Loop(chunk, k + 1)
  ELSE IF chunk.lines[k].kind = "blank" THEN Loop(Phase(chunk, k, "skipped"), k + 1)
  ELSE IF chunk.lines[k].kind = "malformed" THEN Dropped(chunk, k)
  ELSE IF ~HasHandler(chunk.lines[k].method)
  THEN Loop(Respond(Phase(chunk, k, "done"),
                    MethodNotFound(k, chunk.lines[k].method)), k + 1)
  ELSE IF Awaits(chunk.lines[k]) THEN Phase(chunk, k, "called")
  ELSE Loop(Phase(chunk, k, "called"), k + 1)

\* the handlers: catch (error) { throw new Error(`Failed to ...: ${error.message}`) }
Rethrown(prefix, ret) == IF ret.ok THEN ret ELSE Throw(prefix \o ret.error)

\* what the handler of a request reads from SSP_DIR
HandlerReads(request, files) ==
  IF request.method \in {"addControlImplementation", "getSSP"}
  THEN getSSP(files, request.params.sspId)
  ELSE NotRead

\* what the handler returns or throws once its read has returned, and the
\* files it leaves
HandlerReturns(request, read, files, time) ==
  CASE request.method = "addControlImplementation" ->
         LET r == UpdateRead(files, read, time, request.params.sspId,
                             request.params.controlId, request.params.payload.status,
                             request.params.payload.description,
                             request.params.payload.responsibleRoles)
         IN  [ret |-> Rethrown("Failed to add control implementation: ", r.ret),
              files |-> r.files]
    [] request.method = "getSSP" ->
         [ret |-> Rethrown("Failed to get SSP: ", read), files |-> files]
    [] OTHER -> [ret |-> [ok |-> TRUE, value |-> "[object Object]"], files |-> files]

InitDispatch ==
  /\ directory = <<>>
  /\ baselineProfiles = NoProfiles
  /\ store = [id \in SspIds |-> IF id = SampleSspId THEN SampleSsp ELSE NoFile]
  /\ now = 1
  /\ last = NoCall
  /\ callers = [c \in Callers |-> Idle]
  /\ idm = IdIdle /\ NoFedramp

\* process.stdin.on('data', ...): a chunk arrives and is handled up to its
\* first await
DataEvent(c, lines) ==
  /\ callers[c].pc = "idle"
  /\ callers' = [callers EXCEPT ![c] = Loop(Chunk(lines), 1)]
  /\ UNCHANGED <<directory, baselineProfiles, store, now, last, idm, fedrampDirectory, fedrampProfiles>>

\* the handler of line k reads
HandlerRead(c, k) ==
  /\ callers[c].pc = "chunk"
  /\ k \in DOMAIN callers[c].lines
  /\ callers[c].phase[k] = "called"
  /\ callers' = [callers EXCEPT
                   ![c] = [Phase(callers[c], k, "read") EXCEPT
                             !.held[k] = HandlerReads(callers[c].lines[k], store)]]
  /\ UNCHANGED <<directory, baselineProfiles, store, now, last, idm, fedrampDirectory, fedrampProfiles>>

\* the handler of line k returns or throws, the response is written and the
\* loop goes on to the next await
HandlerReturn(c, k) ==
  /\ callers[c].pc = "chunk"
  /\ k \in DOMAIN callers[c].lines
  /\ callers[c].phase[k] = "read"
  /\ \E r \in {HandlerReturns(callers[c].lines[k], callers[c].held[k], store, now)} :
       /\ store' = r.files
       /\ now' = Tick(r.ret)
       /\ callers' = [callers EXCEPT
                        ![c] = Loop(Respond(Phase(callers[c], k, "done"),
                                            Response(k, r.ret)), k + 1)]
  /\ UNCHANGED <<directory, baselineProfiles, last, idm, fedrampDirectory, fedrampProfiles>>

NextDispatch ==
  \/ \E c \in Callers, lines \in Chunks : DataEvent(c, lines)
  \/ \E c \in Callers, k \in 1..MaxLines : HandlerRead(c, k)
  \/ \E c \in Callers, k \in 1..MaxLines : HandlerReturn(c, k)

SpecDispatch == InitDispatch /\ [][NextDispatch]_vars

(***************************************************************************)
(* getBaselineControls(securityLevel, profileType) called on directories   *)
(* whose file names collide and whose profile documents change             *)
(***************************************************************************)
\* a profile whose name has "low" in "followup" beside "moderate"
ModerateFollowUp ==
  File(<<"m","o","d","e","r","a","t","e","-","f","o","l","l","o","w","u","p">> \o JsonExt,
       <<ac1, ac2>>)

\* a second moderate profile, listed after the sample one
ModerateDraft ==
  File(<<"m","o","d","e","r","a","t","e","-","d","r","a","f","t">> \o JsonExt, <<ac1>>)

HighCapitals ==
  File(<<"N","I","S","T","_","H","I","G","H","-","B","a","s","e","l","i","n","e">>
         \o JsonExt, <<ac1, ac2, si4>>)

FedrampModerate ==
  File(<<"F","e","d","R","A","M","P","_","M","O","D","E","R","A","T","E">> \o JsonExt,
       <<ac1, si4>>)

ProfileDirectories ==
  { <<Readme, ModerateSample, HighCapitals>>,
    <<ModerateSample, ModerateDraft>>,
    <<ModerateFollowUp, HighCapitals>> }

FedrampDirectories == { <<FedrampModerate>> }

\* the with-ids a profile document is changed to
ProfileContents == { <<ac2>>, <<ac1, ac2, si4>> }

ProfileTypes == {"baseline", "fedramp"}

InitProfiles ==
  /\ directory \in ProfileDirectories
  /\ baselineProfiles = InitialBaselineProfiles(directory)
  /\ fedrampDirectory \in FedrampDirectories
  /\ fedrampProfiles = InitialBaselineProfiles(fedrampDirectory)
  /\ store = [id \in SspIds |-> IF id = SampleSspId THEN SampleSsp ELSE NoFile]
  /\ now = 1
  /\ last = NoCall
  /\ callers = [c \in Callers |-> Idle]
  /\ idm = IdIdle

\* oscalService.getBaselineControls(securityLevel, 'baseline')
GetBaselineControlsOfBaseline(securityLevel) ==
  /\ \E r \in {getBaselineControls(securityLevel, baselineProfiles, directory)} :
       /\ baselineProfiles' = r.profiles
       /\ last' = Call("getBaselineControls",
                       [securityLevel |-> securityLevel, profileType |-> "baseline"],
                       r.ret)
  /\ UNCHANGED <<directory, store, now, callers, idm, fedrampDirectory, fedrampProfiles>>

\* oscalService.getBaselineControls(securityLevel, 'fedramp')
GetBaselineControlsOfFedramp(securityLevel) ==
  /\ \E r \in {getBaselineControls(securityLevel, fedrampProfiles, fedrampDirectory)} :
       /\ fedrampProfiles' = r.profiles
       /\ last' = Call("getBaselineControls",
                       [securityLevel |-> securityLevel, profileType |-> "fedramp"],
                       r.ret)
  /\ UNCHANGED <<directory, baselineProfiles, store, now, callers, idm, fedrampDirectory>>

\* a profile document of the content tree is rewritten with other with-ids
RewriteProfile(dir, i, withIds) == [dir EXCEPT ![i] = File(dir[i].name, withIds)]

BaselineProfileChanges(i, withIds) ==
  /\ i \in DOMAIN directory
  /\ IsJsonFile(directory[i])
  /\ directory' = RewriteProfile(directory, i, withIds)
  /\ UNCHANGED <<baselineProfiles, store, now, last, callers, idm, fedrampDirectory, fedrampProfiles>>

FedrampProfileChanges(i, withIds) ==
  /\ i \in DOMAIN fedrampDirectory
  /\ IsJsonFile(fedrampDirectory[i])
  /\ fedrampDirectory' = RewriteProfile(fedrampDirectory, i, withIds)
  /\ UNCHANGED <<directory, baselineProfiles, store, now, last, callers, idm, fedrampProfiles>>

NextProfiles ==
  \/ \E securityLevel \in LevelNames : GetBaselineControlsOfBaseline(securityLevel)
  \/ \E securityLevel \in LevelNames : GetBaselineControlsOfFedramp(securityLevel)
  \/ \E i \in 1..3, withIds \in ProfileContents : BaselineProfileChanges(i, withIds)
  \/ \E i \in 1..3, withIds \in ProfileContents : FedrampProfileChanges(i, withIds)

SpecProfiles == InitProfiles /\ [][NextProfiles]_vars
(***************************************************************************)
(* Properties                                                              *)
(***************************************************************************)
\* the canonical value of a parsed identifier: family, number, enhancement
CanonicalValue(parsed) == <<parsed.family, parsed.number, parsed.enhancement>>

\* the canonical value of an identifier text that parse accepts
Canonical(controlId) == CanonicalValue(parse(controlId))

CanonicalSet(controlIds) == {Canonical(controlIds[i]) : i \in DOMAIN controlIds}

ControlIdsOf(implementations) ==
  [i \in DOMAIN implementations |-> implementations[i].controlId]

\* what the service resolves as the baseline of a security level
ResolvedBaseline(securityLevel) ==
  getBaselineControls(securityLevel, baselineProfiles, directory).ret

\* the records of a document without their timestamps
Contents(implementations) ==
  [i \in DOMAIN implementations |->
     [controlId |-> implementations[i].controlId,
      status |-> implementations[i].status,
      description |-> implementations[i].description,
      responsibleRoles |-> implementations[i].responsibleRoles]]

CountOf(implementations, status) ==
  Cardinality({i \in DOMAIN implementations : implementations[i].status = status})

Distance(a, b) == IF a >= b THEN a - b ELSE b - a

\* C1: when validateSSP returns for a document, the canonical values of
\* missingControls are those of the resolved baseline of the document's
\* level that no record of the document has, and valid is true exactly
\* when missingControls is empty.
C1_MissingControls ==
  (last.op = "validateSSP" /\ last.ret.ok) =>
    LET ssp == store[last.args.sspId]
        report == last.ret.value
    IN  /\ CanonicalSet(report.missingControls)
             = CanonicalSet(ResolvedBaseline(ssp.securityImpactLevel).value)
                 \ CanonicalSet(ControlIdsOf(ssp.controlImplementations))
        /\ report.valid <=> (report.missingControls = <<>>)

\* a validation that reports a missing control while a baseline entry
\* spelled differently from the record that implements it is not reported
C1_MissingReported ==
  /\ last.op = "validateSSP"
  /\ last.ret.ok
  /\ ~last.ret.value.valid
  /\ last.ret.value.missingControls # <<>>
  /\ LET ssp == store[last.args.sspId]
         baseline == ResolvedBaseline(ssp.securityImpactLevel).value
     IN  \E i \in DOMAIN baseline, j \in DOMAIN ssp.controlImplementations :
           /\ baseline[i] # ssp.controlImplementations[j].controlId
           /\ Canonical(baseline[i]) = Canonical(ssp.controlImplementations[j].controlId)

\* C2: implementationPercentage is 100 * (IMPLEMENTED + PARTIALLY_IMPLEMENTED / 2)
\* / totalControls rounded to the nearest hundredth, every other status
\* counting in the denominator only, and 0 for a document without records;
\* a document seeded with AC-1, AC-2 and SI-4 whose AC-1 is IMPLEMENTED and
\* AC-2 PARTIALLY_IMPLEMENTED is reported 50.00 with no missing control.
C2_Percentage ==
  /\ Report(<<>>, [st \in validStatuses |-> 0], 0).implementationPercentage = 0
  /\ (last.op = "validateSSP" /\ last.ret.ok) =>
       LET implementations == store[last.args.sspId].controlImplementations
           report == last.ret.value
           total == Len(implementations)
           weight == 2 * CountOf(implementations, "IMPLEMENTED")
                       + CountOf(implementations, "PARTIALLY_IMPLEMENTED")
       IN  /\ total = 0 => report.implementationPercentage = 0
           /\ total > 0 =>
                2 * Distance(report.implementationPercentage * total, 5000 * weight)
                  <= total
           /\ ( /\ CanonicalSet(ResolvedBaseline(
                       store[last.args.sspId].securityImpactLevel).value)
                     = CanonicalSet(<<AC1, AC2, SI4>>)
                /\ ControlIdsOf(implementations) = <<AC1, AC2, SI4>>
                /\ implementations[1].status = "IMPLEMENTED"
                /\ implementations[2].status = "PARTIALLY_IMPLEMENTED"
                /\ implementations[3].status = "PLANNED" )
              => /\ report.implementationPercentage = 5000
                 /\ report.missingControls = <<>>

\* a document created from a baseline of three controls, then AC-1 recorded
\* IMPLEMENTED and AC-2 PARTIALLY_IMPLEMENTED, then validated
C2_HalfImplemented ==
  /\ last.op = "validateSSP"
  /\ last.ret.ok
  /\ last.ret.value.implementationPercentage = 5000
  /\ last.ret.value.missingControls = <<>>
  /\ LET ssp == store[last.args.sspId]
         implementations == ssp.controlImplementations
     IN  /\ ssp.created >= 1
         /\ Len(ResolvedBaseline(ssp.securityImpactLevel).value) = 3
         /\ ControlIdsOf(implementations) = <<AC1, AC2, SI4>>
         /\ implementations[1].status = "IMPLEMENTED"
         /\ implementations[2].status = "PARTIALLY_IMPLEMENTED"
         /\ implementations[3].status = "PLANNED"
         /\ "lastUpdated" \in DOMAIN implementations[1]
         /\ "lastUpdated" \in DOMAIN implementations[2]
         /\ "lastUpdated" \notin DOMAIN implementations[3]
         /\ implementations[1].lastUpdated > ssp.created
         /\ implementations[2].lastUpdated > ssp.created

\* C3: every document holds at most one record per canonical control
\* identifier.
C3_OneRecordPerControl ==
  \A id \in SspIds :
    store[id].exists =>
      \A i, j \in DOMAIN store[id].controlImplementations :
        Canonical(store[id].controlImplementations[i].controlId)
          = Canonical(store[id].controlImplementations[j].controlId)
        => i = j

\* C4: a successful addControlImplementation leaves a record of the
\* canonical identifier with the status, description and roles given, in
\* place of a record the document had for that canonical identifier or else
\* appended, and a later updated timestamp; a getControlImplementation that
\* follows it with any spelling of the identifier returns that record.
C4_Upsert ==
  [][ /\ (last'.op = "addControlImplementation" /\ last'.ret.ok) =>
           LET args == last'.args
               record == last'.ret.value
               before == store[args.sspId].controlImplementations
               after == store'[args.sspId].controlImplementations
               Same(i) == Canonical(before[i].controlId) = Canonical(args.controlId)
           IN  /\ Canonical(record.controlId) = Canonical(args.controlId)
               /\ record.status = args.payload.status
               /\ record.description = args.payload.description
               /\ record.responsibleRoles
                    = IF args.payload.responsibleRoles.given
                      THEN args.payload.responsibleRoles.array ELSE <<>>
               /\ IF \E i \in DOMAIN before : Same(i)
                  THEN /\ Len(after) = Len(before)
                       /\ \E i \in DOMAIN before :
                            /\ Same(i)
                            /\ after[i] = record
                            /\ \A j \in DOMAIN before \ {i} : after[j] = before[j]
                  ELSE after = Append(before, record)
               /\ store'[args.sspId].updated = now
               /\ store'[args.sspId].updated > store[args.sspId].updated
      /\ ( /\ last.op = "addControlImplementation"
           /\ last.ret.ok
           /\ last'.op = "getControlImplementation"
           /\ last'.args.sspId = last.args.sspId
           /\ parse(last'.args.controlId).ok
           /\ Canonical(last'.args.controlId) = Canonical(last.args.controlId) )
         => /\ last'.ret.ok
            /\ last'.ret.value = last.ret.value
    ]_vars

\* a record seeded as AC-2(1), replaced by a call that spells it ac.2.1 and
\* read back by a call that spells it AC-2(1)
C4_ReplacedAndReadBack ==
  /\ last.op = "getControlImplementation"
  /\ last.ret.ok
  /\ last.args.controlId = AC2e1
  /\ LET ssp == store[last.args.sspId]
     IN  /\ ssp.created >= 1
         /\ Len(ssp.controlImplementations) = 3
         /\ ssp.updated > ssp.created
         /\ "lastUpdated" \in DOMAIN last.ret.value
         /\ last.ret.value.lastUpdated = ssp.updated
         /\ last.ret.value.status = "IMPLEMENTED"

\* C5: an addControlImplementation repeated with the arguments of the
\* successful call before it succeeds and leaves every document's records
\* as they were, timestamps apart.
C5_Idempotent ==
  [][ ( /\ last.op = "addControlImplementation"
        /\ last.ret.ok
        /\ last'.op = "addControlImplementation"
        /\ last'.args = last.args )
      => /\ last'.ret.ok
         /\ \A id \in SspIds :
              /\ store'[id].exists = store[id].exists
              /\ store[id].exists =>
                   Contents(store'[id].controlImplementations)
                     = Contents(store[id].controlImplementations)
    ]_vars

\* a successful addControlImplementation that repeats the call before it
C5_Repeated ==
  /\ last.op = "addControlImplementation"
  /\ last.ret.ok
  /\ last.again

\* a request whose status and identifier addControlImplementation accepts
WellFormed(call) ==
  /\ call.payload.status \in {"IMPLEMENTED", "PARTIALLY_IMPLEMENTED", "PLANNED",
                              "ALTERNATIVE_IMPLEMENTATION", "NOT_APPLICABLE"}
  /\ parse(call.controlId).ok

\* two callers whose well-formed calls read the same version of one
\* document, c writing before d
ReadReadWriteWrite(c, d) ==
  /\ c # d
  /\ callers[c].pc = "done"
  /\ callers[d].pc = "done"
  /\ callers[c].ssp # NoFile
  /\ callers[c].ssp = callers[d].ssp
  /\ callers[c].sspId = callers[d].sspId
  /\ WellFormed(callers[c])
  /\ WellFormed(callers[d])
  /\ callers[c].at < callers[d].at

\* C6: when two addControlImplementation calls read the same version of a
\* document before either writes, both return their record without error and
\* the document then holds the version read with the later writer's record
\* only: the earlier writer's record is in no document.
C6_LostUpdate ==
  \A c, d \in Callers :
    ReadReadWriteWrite(c, d) =>
      LET read == callers[c].ssp.controlImplementations
          held == store[callers[c].sspId].controlImplementations
          earlier == callers[c].ret
          later == callers[d].ret
      IN  /\ earlier.ok
          /\ later.ok
          /\ \E i \in DOMAIN held : held[i] = later.value
          /\ Len(held) <= Len(read) + 1
          /\ \A i \in DOMAIN read :
               Canonical(read[i].controlId) # Canonical(later.value.controlId)
               => held[i] = read[i]
          /\ \A i \in DOMAIN held : held[i] # earlier.value

\* the interleaving with calls on two different controls
C6_Interleaved ==
  \E c, d \in Callers :
    /\ ReadReadWriteWrite(c, d)
    /\ callers[c].ret.ok
    /\ callers[d].ret.ok
    /\ Canonical(callers[c].controlId) # Canonical(callers[d].controlId)
    /\ \A i \in DOMAIN store[callers[c].sspId].controlImplementations :
         store[callers[c].sspId].controlImplementations[i] # callers[c].ret.value

\* C7: a successful createSSP returns and persists a document with exactly
\* one record per identifier of the resolved baseline of its level, each
\* PLANNED; three records when the baseline is AC-1, AC-2, SI-4.
C7_OneRecordPerBaselineControl ==
  (last.op = "createSSP" /\ last.ret.ok) =>
    LET ssp == last.ret.value
        implementations == ssp.controlImplementations
        baseline == ResolvedBaseline(ssp.securityImpactLevel).value
    IN  /\ store[ssp.id] = ssp
        /\ CanonicalSet(ControlIdsOf(implementations)) = CanonicalSet(baseline)
        /\ \A i, j \in DOMAIN implementations :
             Canonical(implementations[i].controlId)
               = Canonical(implementations[j].controlId)
             => i = j
        /\ \A i \in DOMAIN implementations : implementations[i].status = "PLANNED"
        /\ CanonicalSet(baseline) = CanonicalSet(<<AC1, AC2, SI4>>)
           => Len(implementations) = 3

\* C8 as the source has it: every record seeded by createSSP has no
\* responsible role and the description "Implementation of <identifier> is
\* planned." with the identifier spelled as the baseline profile lists it.
C8_SeededDefaults ==
  (last.op = "createSSP" /\ last.ret.ok) =>
    LET implementations == last.ret.value.controlImplementations
        baseline == ResolvedBaseline(last.ret.value.securityImpactLevel).value
    IN  /\ Len(implementations) = Len(baseline)
        /\ \A i \in DOMAIN implementations :
             /\ implementations[i].responsibleRoles = <<>>
             /\ implementations[i].description
                  = <<"Implementation of ">> \o baseline[i] \o <<" is planned.">>

\* C8 as stated: every record seeded by createSSP has no responsible role
\* and an empty description.
C8_EmptyDefaults ==
  (last.op = "createSSP" /\ last.ret.ok) =>
    \A i \in DOMAIN last.ret.value.controlImplementations :
      /\ last.ret.value.controlImplementations[i].responsibleRoles = <<>>
      /\ last.ret.value.controlImplementations[i].description = <<>>

\* a document just created, with a record whose identifier the baseline
\* profile spells otherwise
C8_Seeded ==
  /\ last.op = "createSSP"
  /\ last.ret.ok
  /\ LET implementations == last.ret.value.controlImplementations
         baseline == ResolvedBaseline(last.ret.value.securityImpactLevel).value
     IN  \E i \in DOMAIN implementations :
           /\ implementations[i].controlId # baseline[i]
           /\ implementations[i].description # <<>>
           /\ implementations[i].responsibleRoles = <<>>

\* C9: a createSSP whose level is not exactly LOW, MODERATE or HIGH throws
\* "Invalid security level" and leaves every document and the profile cache
\* as they were.
C9_InvalidLevel ==
  [][ ( /\ last'.op = "createSSP"
        /\ last'.args.securityLevel \notin {LOW, MODERATE, HIGH} )
      => /\ ~last'.ret.ok
         /\ last'.ret.error = "Invalid security level"
         /\ store' = store
         /\ baselineProfiles' = baselineProfiles
    ]_vars

\* createSSP called with the level "moderate" has thrown
C9_LowerCaseRejected ==
  /\ last.op = "createSSP"
  /\ last.args.securityLevel = toLowerCase(MODERATE)
  /\ ~last.ret.ok
  /\ last.ret.error = "Invalid security level"

\* C10: the rendering of a parsed identifier, in either form, parses to the
\* same family, number and enhancement, and normalize applied to what
\* normalize returned, in the same form, returns it unchanged.
C10_RoundTrip ==
  /\ idm.pc = "reparsed" =>
       /\ idm.reparsed.ok
       /\ CanonicalValue(idm.reparsed) = CanonicalValue(idm.parsed)
  /\ idm.pc = "renormalized" => idm.renormalized = idm.normalized


(***************************************************************************)
(* Identifier grammars, ordering and failures                              *)
(***************************************************************************)
\* the two-letter family codes among the input texts, in any case
FamilyCodes == {f \in Families : Len(f) = 2 /\ \A i \in 1..2 : IsUpper(f[i]) \/ IsLower(f[i])}

DigitRuns == {n \in Numerals \cup EnhancementNumerals : n # <<>>}

\* the texts of the five grammars for a family code f, a digit run n and an
\* enhancement digit run e (NoGroup for none): AC.2.1, AC-2(1), AC-2, AC 2, AC2
Grammars(f, n, e) ==
  IF e = NoGroup
  THEN {f \o <<".">> \o n, f \o <<"-">> \o n, f \o <<" ">> \o n, f \o n}
  ELSE {f \o <<".">> \o n \o <<".">> \o e, f \o <<"-">> \o n \o <<"(">> \o e \o <<")">>}

\* the base-10 value of a digit run, as a numeral without leading zeros
ValueOf(n) == IF n = NoGroup THEN NoGroup ELSE StripLeadingZeros(n)

\* what each of the five patterns that matches the upper-cased text extracts
Extractions(dot, hyphenParens, hyphen, space, noSep) ==
  {WithEnhancement(m) : m \in {x \in {dot, hyphenParens} : x.matched}}
    \cup {WithoutEnhancement(m) : m \in {x \in {hyphen, space, noSep} : x.matched}}

ExtractionsOf(upperControlId) ==
  Extractions(dotNotationRegex(upperControlId), hyphenParensRegex(upperControlId),
              hyphenRegex(upperControlId), spaceRegex(upperControlId),
              noSepRegex(upperControlId))

\* C11: parse accepts every text of the five grammars in any case, with the
\* upper-cased family, the value of the number and the value of the
\* enhancement, so that all spellings of one identifier parse to one
\* canonical value; the text in lower and in upper case parses to the same
\* value, and every pattern that matches extracts what parse returns.
C11_FiveGrammars ==
  idm.pc = "parsed" =>
    /\ \A f \in FamilyCodes, n \in DigitRuns, e \in DigitRuns \cup {NoGroup} :
         idm.controlId \in Grammars(f, n, e) =>
           /\ idm.parsed.ok
           /\ CanonicalValue(idm.parsed) = <<toUpperCase(f), ValueOf(n), ValueOf(e)>>
    /\ idm.parsed.ok =>
         /\ Len(idm.parsed.family) = 2
         /\ \A i \in 1..2 : IsUpper(idm.parsed.family[i])
         /\ \A u \in {toLowerCase(idm.controlId), toUpperCase(idm.controlId)} :
              /\ parse(u).ok
              /\ CanonicalValue(parse(u)) = CanonicalValue(idm.parsed)
         /\ ExtractionsOf(toUpperCase(idm.controlId)) = {idm.parsed}

\* "ac-2(1)" has been parsed to {AC, 2, 1}, which is what "AC.2.1" parses to
C11_VariantsAgree ==
  /\ idm.pc = "parsed"
  /\ idm.controlId = toLowerCase(AC2e1)
  /\ idm.parsed.ok
  /\ CanonicalValue(idm.parsed) = <<SubSeq(AC2, 1, 2), <<"2">>, <<"1">>>>
  /\ CanonicalValue(parse(toUpperCase(ac2dot1))) = CanonicalValue(idm.parsed)

\* the value of a short numeral
RECURSIVE NatOf(_)
NatOf(ds) ==
  IF ds = <<>> THEN 0
  ELSE 10 * NatOf(SubSeq(ds, 1, Len(ds) - 1))
         + ((CHOOSE i \in DOMAIN Digits : Digits[i] = ds[Len(ds)]) - 1)

LetterRank(c) == CHOOSE i \in DOMAIN UpperCase : UpperCase[i] = c

\* an identifier with no enhancement comes before one with any enhancement
EnhancementBefore(x, y) ==
  IF x = NoGroup THEN y # NoGroup
  ELSE y # NoGroup /\ NatOf(x) < NatOf(y)

\* the order by family, then number, then enhancement
Before(x, y) ==
  \/ LetterRank(x.family[1]) < LetterRank(y.family[1])
  \/ /\ x.family[1] = y.family[1]
     /\ LetterRank(x.family[2]) < LetterRank(y.family[2])
  \/ /\ x.family = y.family
     /\ NatOf(x.number) < NatOf(y.number)
  \/ /\ x.family = y.family
     /\ x.number = y.number
     /\ EnhancementBefore(x.enhancement, y.enhancement)

Compared(p) == idm.result[p] # NotCompared

\* what one call of compareControlIds on two texts has to have returned
OrderedAs(x, y, result) ==
  /\ result.ok = (x.ok /\ y.ok)
  /\ result.ok =>
       /\ result.value \in {-1, 0, 1}
       /\ (result.value = 0) = (CanonicalValue(x) = CanonicalValue(y))
       /\ (result.value = -1) = Before(x, y)
       /\ (result.value = 1) = Before(y, x)

\* C12: compareControlIds returns -1, 0 or 1 for two identifiers, 0 exactly
\* when family, number and enhancement are equal, -1 exactly when the first
\* comes before the second by family, then number, then enhancement with no
\* enhancement first; the results are antisymmetric and transitive.
C12_TotalOrder ==
  idm.pc = "compare" =>
    LET ab == idm.result[<<"a", "b">>]
        ba == idm.result[<<"b", "a">>]
        bc == idm.result[<<"b", "c">>]
        ac == idm.result[<<"a", "c">>]
    IN  /\ \A p \in ComparePairs :
             Compared(p) => OrderedAs(parse(idm[p[1]]), parse(idm[p[2]]), idm.result[p])
        /\ (ab.ok /\ ba.ok) => ba.value = 0 - ab.value
        /\ (ab.ok /\ bc.ok /\ ac.ok /\ ab.value <= 0 /\ bc.value <= 0) =>
             /\ ac.value <= 0
             /\ (ab.value = -1 \/ bc.value = -1) => ac.value = -1

\* AC-9, AC-10 and AC-10(1) have been compared: each is before the next
C12_NineTenTenOne ==
  /\ idm.pc = "compare"
  /\ idm.a = AC9 /\ idm.b = AC10 /\ idm.c = AC10e1
  /\ \A p \in ComparePairs : idm.result[p].ok
  /\ idm.result[<<"a", "b">>].value = -1
  /\ idm.result[<<"b", "c">>].value = -1
  /\ idm.result[<<"a", "c">>].value = -1
  /\ idm.result[<<"b", "a">>].value = 1

\* the text with the letters a-z in upper case, as a pattern that ignores
\* case reads it
IgnoringCase(s) == [i \in DOMAIN s |-> UpperOfChar(s[i])]

AnyMatched(dot, hyphenParens, hyphen, space, noSep) ==
  dot.matched \/ hyphenParens.matched \/ hyphen.matched \/ space.matched
    \/ noSep.matched

\* the text is written in one of the five grammars, in any case
RecognizedGrammar(s) ==
  AnyMatched(dotNotationRegex(IgnoringCase(s)), hyphenParensRegex(IgnoringCase(s)),
             hyphenRegex(IgnoringCase(s)), spaceRegex(IgnoringCase(s)),
             noSepRegex(IgnoringCase(s)))

MalformedIdentifier(result) ==
  /\ ~result.ok
  /\ result.error \in {"Control ID is required", "Invalid control ID format"}

\* C13: parse and normalize throw for the empty text, for a text of white
\* space only and for every text that is written in none of the five
\* grammars; they return no identifier for such a text.
C13_MalformedFails ==
  /\ (idm.pc = "parsed" /\ ~RecognizedGrammar(idm.controlId)) =>
       MalformedIdentifier(idm.parsed)
  /\ (idm.pc = "normalized" /\ ~RecognizedGrammar(idm.controlId)) =>
       MalformedIdentifier(idm.normalized)

\* the directory holds a profile document for the level: a JSON file whose
\* name, in lower case, has the name of the level in it
HasProfileDocument(dir, securityLevel) ==
  \E i \in DOMAIN dir :
    /\ IsJsonFile(dir[i])
    /\ includes(toLowerCase(dir[i].name), toLowerCase(securityLevel))

ProfileNotFound(result) ==
  /\ ~result.ok
  /\ result.error \in {"Security level not found in profiles",
                       "No profile JSON files found",
                       "Could not identify security levels in profile files"}

\* C14: getBaselineControls called for a level that has no profile document
\* in the directory throws; it returns no list, empty or not.
C14_ProfileNotFound ==
  ( /\ last.op \in {"getBaselineControls", "getBaselineControls (placeholder)"}
    /\ ~HasProfileDocument(directory, last.args.securityLevel) )
  => ProfileNotFound(last.ret)

\* the same of the module that reads the profile documents alone
C14_ProfileNotFoundReading ==
  ( /\ last.op = "getBaselineControls"
    /\ ~HasProfileDocument(directory, last.args.securityLevel) )
  => ProfileNotFound(last.ret)

\* the profile documents of a level in the directory
ProfileDocuments(dir, securityLevel) ==
  {i \in DOMAIN dir :
     /\ IsJsonFile(dir[i])
     /\ includes(toLowerCase(dir[i].name), toLowerCase(securityLevel))}

\* the level has profile documents, and they list no identifier
EmptyProfiled(dir, securityLevel) ==
  /\ ProfileDocuments(dir, securityLevel) # {}
  /\ \A i \in ProfileDocuments(dir, securityLevel) : dir[i].withIds = <<>>

\* C15: a createSSP for a level whose profile document lists no identifier
\* throws "No controls found in profile", as getBaselineControls threw it,
\* and writes nothing; a createSSP that returns has written a document with
\* at least one record.
C15_EmptyProfile ==
  [][ last'.op = "createSSP" =>
        /\ ( /\ last'.args.securityLevel \in {LOW, MODERATE, HIGH}
             /\ EmptyProfiled(directory, last'.args.securityLevel) )
           => /\ ~last'.ret.ok
              /\ last'.ret.error = "No controls found in profile"
              /\ ~ResolvedBaseline(last'.args.securityLevel).ok
              /\ store' = store
        /\ last'.ret.ok =>
             /\ Len(last'.ret.value.controlImplementations) > 0
             /\ store'[last'.ret.value.id] = last'.ret.value
             /\ ~EmptyProfiled(directory, last'.args.securityLevel)
    ]_vars

\* createSSP called for HIGH, whose profile document lists no identifier,
\* has thrown
C15_HighRefused ==
  /\ last.op = "createSSP"
  /\ last.args.securityLevel = HIGH
  /\ EmptyProfiled(directory, HIGH)
  /\ ~last.ret.ok
  /\ last.ret.error = "No controls found in profile"
  /\ \A id \in SspIds :
       store[id].exists => Len(store[id].controlImplementations) > 0

\* C16: an addControlImplementation that throws leaves every document as it
\* was, the updated time included; it throws "SSP not found" for an
\* identifier with no document, "Invalid control ID format" for a text that
\* is no control identifier and "Invalid implementation status" for a status
\* outside the five.
C16_FailedUpsert ==
  [][ last'.op = "addControlImplementation" =>
        /\ ~last'.ret.ok => store' = store /\ now' = now
        /\ ~store[last'.args.sspId].exists =>
             ~last'.ret.ok /\ last'.ret.error = "SSP not found"
        /\ (store[last'.args.sspId].exists /\ ~parse(last'.args.controlId).ok) =>
             ~last'.ret.ok /\ last'.ret.error = "Invalid control ID format"
        /\ ( /\ store[last'.args.sspId].exists
             /\ parse(last'.args.controlId).ok
             /\ last'.args.payload.status \notin validStatuses ) =>
             ~last'.ret.ok /\ last'.ret.error = "Invalid implementation status"
    ]_vars

\* an addControlImplementation on the sample document has thrown for its
\* status, and the document is the sample document still
C16_InvalidStatusRefused ==
  /\ last.op = "addControlImplementation"
  /\ last.args.sspId = SampleSspId
  /\ ~last.ret.ok
  /\ last.ret.error = "Invalid implementation status"
  /\ store[SampleSspId] = SampleSsp

\* the records of a document that are for the identifier a text denotes
RecordsFor(ssp, controlId) ==
  {i \in DOMAIN ssp.controlImplementations :
     Canonical(ssp.controlImplementations[i].controlId) = Canonical(controlId)}

\* what getControlImplementation has to return for a document and a
\* well-formed identifier: a record for it, or the throw when there is none
LookedUp(ssp, controlId, result) ==
  /\ (RecordsFor(ssp, controlId) = {}) =
       (~result.ok /\ result.error = "Control implementation not found")
  /\ (RecordsFor(ssp, controlId) # {}) =
       ( /\ result.ok
         /\ \E i \in RecordsFor(ssp, controlId) :
              result.value = ssp.controlImplementations[i] )

\* C17: for a document that exists and a well-formed identifier,
\* getControlImplementation throws "Control implementation not found"
\* exactly when the document has no record for the identifier, whether the
\* baseline lists it or not, and returns the record otherwise; an
\* addControlImplementation for a well-formed identifier with a valid status
\* returns whether the baseline lists it or not, and the record it returns
\* is what getControlImplementation then returns.
C17_ImplementationNotFound ==
  [][ /\ ( /\ last'.op = "getControlImplementation"
           /\ store[last'.args.sspId].exists
           /\ parse(last'.args.controlId).ok )
         => LookedUp(store[last'.args.sspId], last'.args.controlId, last'.ret)
      /\ ( /\ last'.op = "getControlImplementation"
           /\ ~last'.ret.ok
           /\ last'.ret.error = "Control implementation not found" )
         => store[last'.args.sspId].exists /\ parse(last'.args.controlId).ok
      /\ ( /\ last'.op = "addControlImplementation"
           /\ store[last'.args.sspId].exists
           /\ parse(last'.args.controlId).ok
           /\ last'.args.payload.status \in validStatuses )
         => /\ last'.ret.ok
            /\ getControlImplementation(store', last'.args.sspId,
                                        last'.args.controlId) = last'.ret
    ]_vars

\* AC-2(1), which the baseline of the sample document does not list, has
\* been recorded in it, and getControlImplementation has returned the record
C17_OutsideBaselineFound ==
  /\ last.op = "getControlImplementation"
  /\ last.args.sspId = SampleSspId
  /\ last.args.controlId = AC2e1
  /\ store[SampleSspId].exists
  /\ ResolvedBaseline(MODERATE).ok
  /\ Canonical(AC2e1) \notin CanonicalSet(ResolvedBaseline(MODERATE).value)
  /\ last.ret.ok
  /\ last.ret.value.controlId = AC2e1
  /\ last.ret.value.status = "IMPLEMENTED"
  /\ store[SampleSspId].securityImpactLevel = MODERATE

\* the documents persisted under an identifier
PersistedAs(files, id) == {k \in DOMAIN files : files[k].exists /\ files[k].id = id}

\* what getSSP has to return for an identifier: the document persisted under
\* it, or the throw when there is none
Got(files, id, result) ==
  /\ (PersistedAs(files, id) = {}) = (~result.ok /\ result.error = "SSP not found")
  /\ result.ok => result.value.id = id /\ result.value \in Range(files)

\* C18: getSSP throws "SSP not found" exactly when no persisted document has
\* the identifier, and returns the document otherwise; the document a
\* createSSP returns is what getSSP returns for its id, with the same id,
\* title, level and records, and a document changes only by a createSSP or
\* an addControlImplementation on its id that returns.
C18_GetSSP ==
  [][ /\ last'.op = "getSSP" => Got(store, last'.args.sspId, last'.ret)
      /\ (last'.op = "createSSP" /\ last'.ret.ok) =>
           getSSP(store', last'.ret.value.id) = last'.ret
      /\ \A id \in SspIds :
           store'[id] # store[id] =>
             /\ last'.op \in {"createSSP", "addControlImplementation"}
             /\ last'.ret.ok
             /\ last'.op = "createSSP" => last'.ret.value.id = id
             /\ last'.op = "addControlImplementation" => last'.args.sspId = id
    ]_vars

\* the same for the identifiers that are file names as they stand
C18_GetSSPByFileName ==
  [][ /\ (last'.op = "getSSP" /\ last'.args.sspId \in SspIds) =>
           Got(store, last'.args.sspId, last'.ret)
      /\ (last'.op = "createSSP" /\ last'.ret.ok) =>
           getSSP(store', last'.ret.value.id) = last'.ret
      /\ \A id \in SspIds :
           store'[id] # store[id] =>
             /\ last'.op \in {"createSSP", "addControlImplementation"}
             /\ last'.ret.ok
             /\ last'.op = "createSSP" => last'.ret.value.id = id
             /\ last'.op = "addControlImplementation" => last'.args.sspId = id
    ]_vars

\* C19: in what validateSSP returns, totalControls is the number of records
\* of the document, whatever the size of the baseline; implementationByStatus
\* has, for each of the five statuses, the number of records with that
\* status, records for controls outside the baseline included; the five
\* counts add up to totalControls.
C19_Totals ==
  (last.op = "validateSSP" /\ last.ret.ok) =>
    LET implementations == store[last.args.sspId].controlImplementations
        report == last.ret.value
    IN  /\ report.totalControls = Len(implementations)
        /\ DOMAIN report.implementationByStatus = validStatuses
        /\ \A status \in validStatuses :
             report.implementationByStatus[status] = CountOf(implementations, status)
        /\ report.implementationByStatus["IMPLEMENTED"]
             + report.implementationByStatus["PARTIALLY_IMPLEMENTED"]
             + report.implementationByStatus["PLANNED"]
             + report.implementationByStatus["ALTERNATIVE_IMPLEMENTATION"]
             + report.implementationByStatus["NOT_APPLICABLE"]
           = report.totalControls

\* the sample document with a record for AC-2(1), which its baseline of
\* three controls does not list, has been validated: four controls in all,
\* two of them IMPLEMENTED
C19_OutsideBaselineCounted ==
  /\ last.op = "validateSSP"
  /\ last.ret.ok
  /\ last.args.sspId = SampleSspId
  /\ Len(ResolvedBaseline(store[SampleSspId].securityImpactLevel).value) = 3
  /\ \E i \in DOMAIN store[SampleSspId].controlImplementations :
       /\ store[SampleSspId].controlImplementations[i].controlId = AC2e1
       /\ store[SampleSspId].controlImplementations[i].status = "IMPLEMENTED"
  /\ Canonical(AC2e1) \notin
       CanonicalSet(ResolvedBaseline(store[SampleSspId].securityImpactLevel).value)
  /\ last.ret.value.totalControls = 4
  /\ last.ret.value.implementationByStatus["IMPLEMENTED"] = 2

\* the level has a baseline: a list, not empty, of control identifiers
HasBaseline(securityLevel) ==
  /\ ResolvedBaseline(securityLevel).ok
  /\ \A i \in DOMAIN ResolvedBaseline(securityLevel).value :
       parse(ResolvedBaseline(securityLevel).value[i]).ok

\* C20: validateSSP on a document with no record, whose level has a
\* baseline, returns implementationPercentage 0 with valid false and with
\* the controls of the baseline, all of them, as missingControls; and
\* whenever validateSSP returns 0 percent for a document that lacks a control
\* of its baseline, missingControls is not empty and valid is false.
C20_NoRecords ==
  (last.op = "validateSSP" /\ store[last.args.sspId].exists) =>
    LET ssp == store[last.args.sspId]
    IN  /\ (ssp.controlImplementations = <<>> /\ HasBaseline(ssp.securityImpactLevel))
           => /\ last.ret.ok
              /\ last.ret.value.implementationPercentage = 0
              /\ last.ret.value.valid = FALSE
              /\ last.ret.value.totalControls = 0
              /\ CanonicalSet(last.ret.value.missingControls)
                   = CanonicalSet(ResolvedBaseline(ssp.securityImpactLevel).value)
              /\ last.ret.value.missingControls # <<>>
        /\ ( /\ last.ret.ok
             /\ last.ret.value.implementationPercentage = 0
             /\ CanonicalSet(ResolvedBaseline(ssp.securityImpactLevel).value)
                  \ CanonicalSet(ControlIdsOf(ssp.controlImplementations)) # {} )
           => /\ last.ret.value.missingControls # <<>>
              /\ last.ret.value.valid = FALSE

\* the document without records, at the level MODERATE whose baseline is
\* ac-1, ac-2, si-4, has been validated: 0 percent, not valid, three missing
C20_AllMissing ==
  /\ last.op = "validateSSP"
  /\ last.args.sspId = SampleSspId
  /\ store[SampleSspId] = NoRecordsSsp(MODERATE)
  /\ last.ret.ok
  /\ last.ret.value.implementationPercentage = 0
  /\ last.ret.value.valid = FALSE
  /\ last.ret.value.missingControls = <<AC1, AC2, SI4>>

(***************************************************************************)
(* Frame conditions, the dispatcher and the profile directory              *)
(***************************************************************************)
ReadOps ==
  {"getSSP", "listSSPs", "getControlImplementation", "listControlImplementations",
   "validateSSP"}

\* C21: getSSP, listSSPs, getControlImplementation,
\* listControlImplementations and validateSSP write no document: every step
\* of such a call, the one that returns or throws included, leaves every
\* document as it was, and while calls of these are in flight together the
\* documents are what each of them found when it began.
C21_ReadsWriteNothing ==
  [][ /\ callers' # callers => store' = store
      /\ \A c \in Callers :
           callers'[c].pc = "reading" => store' = callers'[c].files
      /\ last'.op \in ReadOps => store' = store
    ]_vars

\* a validateSSP has returned and a getSSP has thrown while a
\* listControlImplementations is in flight, and the sample document is as it
\* was
C21_ReadWhileReading ==
  /\ last.op \in {"validateSSP", "getSSP"}
  /\ \E c \in Callers :
       /\ callers[c].pc = "reading"
       /\ callers[c].request.op = "listControlImplementations"
       /\ callers[c].files = store
  /\ store[SampleSspId] = SampleSsp

\* the control is one the filter asks for
Sought(control, query, family) ==
  /\ family # NoText => control.family = family
  /\ query # NoText =>
       \/ includes(toLowerCase(control.id), toLowerCase(query))
       \/ includes(toLowerCase(control.title), toLowerCase(query))

\* C22: searchControls returns only controls of the family asked for whose
\* id or title has the query in it, whatever the case, at most limit of
\* them, each before the next in the order by family, then number, then
\* enhancement.
C22_Search ==
  last.op = "searchControls" =>
    LET results == last.ret.value
    IN  /\ \A i \in DOMAIN results :
             Sought(results[i], last.args.query, last.args.family)
        /\ Len(results) <= last.args.limit
        /\ \A i \in DOMAIN results : \A j \in DOMAIN results :
             i < j => Before(parse(results[i].id), parse(results[j].id))

\* the same without the order
C22_SearchFiltered ==
  last.op = "searchControls" =>
    LET results == last.ret.value
    IN  /\ \A i \in DOMAIN results :
             Sought(results[i], last.args.query, last.args.family)
        /\ Len(results) <= last.args.limit

\* the chunk of caller c has been handled to its end
Handled(c) ==
  /\ callers[c].pc = "chunk"
  /\ \A k \in DOMAIN callers[c].lines :
       callers[c].phase[k] \in {"done", "skipped", "dropped"}

\* the responses written for line k of the chunk of caller c
ResponsesTo(c, k) == {i \in DOMAIN callers[c].out : callers[c].out[i].id = k}

\* line k of the chunk got exactly one response, of the kind its method and
\* the outcome of its handler call for
AnsweredOnce(c, k) ==
  /\ Cardinality(ResponsesTo(c, k)) = 1
  /\ \A i \in ResponsesTo(c, k) :
       IF callers[c].lines[k].method \in methods
       THEN callers[c].out[i].code = (IF callers[c].out[i].ok THEN 0 ELSE -32000)
       ELSE callers[c].out[i].code = -32601 /\ ~callers[c].out[i].ok

\* C23: every line that parses as a request gets exactly one response with
\* its id, the result of the handler, the error -32000 when the handler
\* threw or the error -32601 when the method is not registered, and every
\* method of the README is registered
C23_OneResponsePerRequest ==
  /\ ReadmeMethods \subseteq methods
  /\ \A c \in Callers :
       Handled(c) =>
         \A k \in DOMAIN callers[c].lines :
           callers[c].lines[k].kind = "request" => AnsweredOnce(c, k)

\* the same for the chunks in which every line parses and no method has a
\* name every object answers to
C23_OneResponseWhenAllParse ==
  \A c \in Callers :
    ( /\ Handled(c)
      /\ \A k \in DOMAIN callers[c].lines :
           /\ callers[c].lines[k].kind # "malformed"
           /\ callers[c].lines[k].method \notin ObjectPrototype )
    => \A k \in DOMAIN callers[c].lines :
         callers[c].lines[k].kind = "request" => AnsweredOnce(c, k)

InFlight == {"called", "read"}

\* C30: the requests of one chunk are handled in order: while the handler
\* of a line runs, every earlier line is done and every request among them
\* has its response written, no later line has started, and the responses
\* are written in the order of the lines
C30_OneLineAtATime ==
  \A c \in Callers :
    callers[c].pc = "chunk" =>
      /\ \A k \in DOMAIN callers[c].lines :
           callers[c].phase[k] \in InFlight =>
             /\ \A j \in 1..(k - 1) :
                  /\ callers[c].phase[j] \in {"done", "skipped"}
                  /\ callers[c].lines[j].kind = "request" => ResponsesTo(c, j) # {}
             /\ \A j \in (k + 1)..Len(callers[c].lines) :
                  callers[c].phase[j] = "pending"
             /\ ResponsesTo(c, k) = {}
      /\ \A i, j \in DOMAIN callers[c].out :
           i < j => callers[c].out[i].id < callers[c].out[j].id

\* two addControlImplementation requests of one chunk are both done, and
\* the document holds what both recorded
C30_BothRecorded ==
  \E c \in Callers :
    /\ Handled(c)
    /\ Len(callers[c].lines) = 2
    /\ \A k \in 1..2 :
         /\ callers[c].lines[k].method = "addControlImplementation"
         /\ callers[c].phase[k] = "done"
    /\ Len(callers[c].out) = 2
    /\ callers[c].out[1].ok /\ callers[c].out[2].ok
    /\ callers[c].lines[1] # callers[c].lines[2]
    /\ \A k \in 1..2 :
         \E i \in DOMAIN store[SampleSspId].controlImplementations :
           /\ store[SampleSspId].controlImplementations[i].controlId
                = callers[c].lines[k].params.controlId
           /\ store[SampleSspId].controlImplementations[i].status
                = callers[c].lines[k].params.payload.status

\* C24: a resolution over a profile document that lists a malformed
\* identifier fails: getBaselineControls returns no list with an entry
\* written in none of the grammars.
C24_MalformedEntryFails ==
  (last.op = "getBaselineControls" /\ last.ret.ok) =>
    \A i \in DOMAIN last.ret.value : RecognizedGrammar(last.ret.value[i])

\* the directory of a profile type and the profiles cached for it
DirectoryOf(profileType) ==
  IF profileType = "fedramp" THEN fedrampDirectory ELSE directory

ProfilesOf(profileType) ==
  IF profileType = "fedramp" THEN fedrampProfiles ELSE baselineProfiles

\* C25: a profile document whose name has the name of a level in it, in any
\* case, is selected for that level whatever else its name has: when the
\* profiles of a directory are loaded, every level some document is named
\* after has a profile, and that profile is named after it.
C25_SelectedByName ==
  \A profileType \in ProfileTypes, l \in LevelNames :
    ( /\ ~IsEmptyProfiles(ProfilesOf(profileType))
      /\ HasProfileDocument(DirectoryOf(profileType), l) )
    => /\ ProfilesOf(profileType)[l] # NoProfile
       /\ includes(toLowerCase(ProfilesOf(profileType)[l]), toLowerCase(l))

\* the same for the documents named after one level only
NamedAfterOneLevel(dir) ==
  \A i \in DOMAIN dir :
    Cardinality({l \in LevelNames :
                   includes(toLowerCase(dir[i].name), toLowerCase(l))}) <= 1

C25_SelectedByOneName ==
  (NamedAfterOneLevel(directory) /\ NamedAfterOneLevel(fedrampDirectory))
    => C25_SelectedByName

First(S) == CHOOSE i \in S : \A j \in S : i <= j

\* C26: of two or more profile documents named after one level, the first
\* of the listing is the one a resolution for the level reads.
C26_FirstMatchUsed ==
  [][ ( /\ last'.op = "getBaselineControls"
        /\ last'.ret.ok
        /\ last'.args.securityLevel \in LevelNames
        /\ Cardinality(ProfileDocuments(DirectoryOf(last'.args.profileType),
                                        last'.args.securityLevel)) >= 2 )
      => last'.ret.value
           = DirectoryOf(last'.args.profileType)[
               First(ProfileDocuments(DirectoryOf(last'.args.profileType),
                                      last'.args.securityLevel))].withIds ]_vars

\* a step that is a call of getBaselineControls which returned
Resolved ==
  /\ last'.op = "getBaselineControls"
  /\ last'.ret.ok
  /\ directory' = directory
  /\ fedrampDirectory' = fedrampDirectory

\* the call returned the with-ids of a document of the directory of its
\* profile type, the one cached for its level
OfItsType ==
  \E i \in DOMAIN DirectoryOf(last'.args.profileType) :
    /\ DirectoryOf(last'.args.profileType)[i].withIds = last'.ret.value
    /\ (IF last'.args.profileType = "fedramp" THEN fedrampProfiles'
         ELSE baselineProfiles')[toUpperCase(last'.args.securityLevel)]
         = DirectoryOf(last'.args.profileType)[i].name

\* C27: a resolution that succeeded is cached by level and profile type: a
\* later call with the same arguments returns the same identifiers whatever
\* has become of the profile document, and a call for one profile type
\* returns nothing cached for the other.
C27_CachedPerLevelAndType ==
  [][ /\ ( /\ last.op = "getBaselineControls"
           /\ last'.op = "getBaselineControls"
           /\ last.ret.ok
           /\ last'.args = last.args
           /\ directory' = directory /\ fedrampDirectory' = fedrampDirectory )
         => (last'.ret.ok /\ last'.ret.value = last.ret.value)
      /\ Resolved => OfItsType ]_vars

\* the part of it that is about the profile types
C27_KindsKeptApart == [][Resolved => OfItsType]_vars

\* C28: a successful addControlImplementation changes only the record of
\* the canonical identifier and the updated time of the document: every
\* other record keeps its content and its place, the document has at most
\* one record more, its id, title, level and other fields are as they were,
\* and no other document is written.
C28_UpsertFrame ==
  [][ (last'.op = "addControlImplementation" /\ last'.ret.ok) =>
        LET id == last'.args.sspId
            before == store[id].controlImplementations
            after == store'[id].controlImplementations
        IN  /\ \A other \in SspIds \ {id} : store'[other] = store[other]
            /\ store'[id] = [store[id] EXCEPT !.controlImplementations = after,
                                              !.updated = store'[id].updated]
            /\ store'[id].id = store[id].id
            /\ store'[id].title = store[id].title
            /\ store'[id].securityImpactLevel = store[id].securityImpactLevel
            /\ Len(after) \in {Len(before), Len(before) + 1}
            /\ \A i \in DOMAIN before :
                 Canonical(before[i].controlId) # Canonical(last'.args.controlId)
                   => after[i] = before[i]
            /\ Cardinality({i \in DOMAIN before : after[i] # before[i]}) <= 1 ]_vars

\* a record was added to the sample document while another document exists
C28_AddedBesideAnother ==
  /\ last.op = "addControlImplementation"
  /\ last.ret.ok
  /\ last.args.sspId = SampleSspId
  /\ \E other \in SspIds \ {SampleSspId} : store[other].exists
  /\ Len(store[SampleSspId].controlImplementations)
       = Len(SampleSsp.controlImplementations) + 1
  /\ store[SampleSspId].title = SampleSsp.title

\* the records of a document just seeded for a baseline
IsSeedOf(implementations, baseline) ==
  /\ Len(implementations) = Len(baseline)
  /\ \A i \in DOMAIN implementations :
       /\ implementations[i].controlId = normalizeControlId(baseline[i]).value
       /\ Canonical(implementations[i].controlId) = Canonical(baseline[i])
       /\ implementations[i].status = "PLANNED"
       /\ implementations[i].responsibleRoles = <<>>

\* createSSP would return for the level, whatever documents there are
Creatable(securityLevel) ==
  /\ IsValidLevel(securityLevel)
  /\ ResolvedBaseline(securityLevel).ok
  /\ \A i \in DOMAIN ResolvedBaseline(securityLevel).value :
       normalizeControlId(ResolvedBaseline(securityLevel).value[i]).ok

\* C29: createSSP does not look for a document of the identifier it is
\* given: with the identifier of a document that exists it returns as it
\* would for a new one and writes the new document in place of the old,
\* whose records are gone: the records are the PLANNED seed of the level
\* asked for.
C29_CreateReplaces ==
  [][ ( /\ last'.op = "createSSP"
        /\ last'.args.systemId \in SspIds
        /\ store[last'.args.systemId].exists )
      => /\ last'.ret.ok = Creatable(last'.args.securityLevel)
         /\ last'.ret.ok =>
              /\ store'[last'.args.systemId] = last'.ret.value
              /\ last'.ret.value.id = last'.args.systemId
              /\ last'.ret.value.securityImpactLevel = last'.args.securityLevel
              /\ last'.ret.value.created = now
              /\ last'.ret.value.updated = now
              /\ IsSeedOf(last'.ret.value.controlImplementations,
                          ResolvedBaseline(last'.args.securityLevel).value)
  ]_vars

\* the sample document, of level MODERATE, was replaced by a document of
\* level LOW after an earlier write
C29_SampleReplaced ==
  /\ last.op = "createSSP"
  /\ last.ret.ok
  /\ last.args.systemId = SampleSspId
  /\ last.args.securityLevel = LOW
  /\ store[SampleSspId].securityImpactLevel = LOW
  /\ store[SampleSspId].created >= 2
  /\ \A i \in DOMAIN store[SampleSspId].controlImplementations :
       store[SampleSspId].controlImplementations[i].status = "PLANNED"
====
